---- MODULE Spec2Model ----
(***************************************************************************)
(* Text-Based San Andreas, edition 2.0                                     *)
(* (src/SanAndreasTheDefinitiveEditionDemake.py): the world state of the   *)
(* Game singleton, the handlers of Game.handle_input, the enemy turn, the  *)
(* police spawn, save_game / load_game and the positions of Game.game_loop.*)
(*                                                                         *)
(* Objects live in game.heap, keyed by an object identity; references      *)
(* between objects (inventory entries, current_weapon, occupant,           *)
(* current_vehicle, the map's object list, the Game dictionaries) hold     *)
(* identities, as Python references do.  Stamina is counted in half points *)
(* (driving costs 0.5).                                                    *)
(*                                                                         *)
(* The input and random sources are either a script (a deterministic       *)
(* stand-in that walks the player to a place of interest) or, once the     *)
(* script is used up, free: every command and every random draw within the *)
(* bounds, for MaxTicks commands.                                          *)
(***************************************************************************)
EXTENDS Integers, Sequences, FiniteSets, TLC

\* game: the Game singleton; file: savegame.json; pc: the position in game_loop;
\* active_enemies: what is left of the snapshot the enemy loop iterates over;
\* script: the run played and the position reached in its script (NoScript when
\* none is left to play); ticks: the commands read from
\* the free source; last: the command key read last, the order number of
\* the shuffles of its iteration and the lines typed at its prompts
VARIABLES game, file, pc, active_enemies, script, ticks, last

vars == <<game, file, pc, active_enemies, script, ticks, last>>

\* ------------------------------------------------------------ constants
MAP_WIDTH == 80
MAP_HEIGHT == 25
VISION_RADIUS == 8
MAX_WANTED_LEVEL == 5
SAVE_FILE_VERSION == 2
\* stamina is stored in units of 1/StaminaScale (Vehicle.move subtracts 0.5)
StaminaScale == 2
FistDamage == 5
NeedsMax == 100
StarveDamage == 2
NeedsPeriod == 10
WantedDecayPeriod == 50
PoliceSpawnPeriod == 20
SpawnSpread == 5

None == "None"

\* ------------------------------------------------------------ bounds
\* commands read from the free input source
MaxTicks == 1
\* the free random source: every random.shuffle of one loop iteration leaves
\* the same order, one of the first NumShuffles of ShuffleOrder
NumShuffles == 1
\* random.randint(-5, 5) is drawn from -SpawnRange..SpawnRange
SpawnRange == 1
\* lines typed at a shop prompt before the closing 0
MaxShopInputs == 1

\* ------------------------------------------------------------ utilities
Min2(a, b) == IF a < b THEN a ELSE b
Max2(a, b) == IF a > b THEN a ELSE b
Abs(a) == IF a < 0 THEN -a ELSE a

\* a faulty clamp: the value passes through unbounded
clamp_unbounded(value, min_value, max_value) == value

clamp(value, min_value, max_value) == Max2(min_value, Min2(value, max_value))

Range(s) == {s[i] : i \in 1..Len(s)}

RECURSIVE SeqRemoveFirst(_, _)
\* list.remove(x): drops the first occurrence
SeqRemoveFirst(s, x) ==
    IF s = <<>> THEN <<>>
    ELSE IF Head(s) = x THEN Tail(s)
    ELSE <<Head(s)>> \o SeqRemoveFirst(Tail(s), x)

\* ------------------------------------------------------------ classes
NPCClasses == {"NPC", "BigSmoke"}
ItemClasses == {"Item", "Weapon", "HealthPack", "MoneyBundle", "Food", "Drink"}

IsNPC(o) == o.cls \in NPCClasses
IsBigSmoke(o) == o.cls = "BigSmoke"
IsItem(o) == o.cls \in ItemClasses
IsEnemy(o) == o.cls = "Enemy"
IsShop(o) == o.cls = "Shop"
IsVehicle(o) == o.cls = "Vehicle"
IsPlayer(o) == o.cls = "Player"

\* ------------------------------------------------------------ constructors
Player_init(x, y) ==
    [cls |-> "Player", name |-> "CJ", x |-> x, y |-> y,
     health |-> 100, max_health |-> 100, money |-> 500,
     stamina |-> 100 * StaminaScale, max_stamina |-> 100 * StaminaScale,
     inventory |-> <<>>, current_weapon |-> None,
     discovered_map |-> {}, missions_completed |-> <<>>,
     current_mission |-> None, wanted_level |-> 0,
     hunger |-> 100, thirst |-> 100,
     driving_skill |-> 1, weapon_skill |-> 1, current_vehicle |-> None]

NPC_init(x, y, name) ==
    [cls |-> "NPC", name |-> name, x |-> x, y |-> y,
     health |-> 50, max_health |-> 50, money |-> 0,
     stamina |-> 100 * StaminaScale, max_stamina |-> 100 * StaminaScale,
     inventory |-> <<>>, current_weapon |-> None,
     mission_offered |-> None, mission_completed |-> FALSE]

BigSmoke_init(x, y) ==
    [cls |-> "BigSmoke", name |-> "Big Smoke", x |-> x, y |-> y,
     health |-> 50, max_health |-> 50, money |-> 0,
     stamina |-> 100 * StaminaScale, max_stamina |-> 100 * StaminaScale,
     inventory |-> <<>>, current_weapon |-> None,
     mission_offered |-> None, mission_completed |-> FALSE,
     char2_x |-> x + 1, char2_y |-> y]

Enemy_init(x, y, name, health, damage, faction) ==
    [cls |-> "Enemy", name |-> name, x |-> x, y |-> y,
     health |-> health, max_health |-> health, money |-> 0,
     stamina |-> 100 * StaminaScale, max_stamina |-> 100 * StaminaScale,
     inventory |-> <<>>, current_weapon |-> None,
     damage |-> damage, faction |-> faction]

\* Weapon.damage, HealthPack.heal_amount, MoneyBundle.amount,
\* Food.hunger_restore and Drink.thirst_restore are the field "power"
Item_init(cls, x, y, name, power, value) ==
    [cls |-> cls, name |-> name, x |-> x, y |-> y, power |-> power, value |-> value]

Shop_init(x, y, name, inventory) ==
    [cls |-> "Shop", name |-> name, x |-> x, y |-> y, inventory |-> inventory]

Vehicle_init(x, y, name, health, speed) ==
    [cls |-> "Vehicle", name |-> name, x |-> x, y |-> y,
     health |-> health, max_health |-> health, speed |-> speed, occupant |-> None]

\* ------------------------------------------------------------ missions
MissionNames == <<"Sweet's Mission", "Ryder's Mission", "Big Smoke's Mission">>

\* Game._initialize_missions: objective = an item of class obj_cls named obj_name
Missions ==
    ("Sweet's Mission" :>
        [name |-> "Sweet's Mission", obj_cls |-> "Weapon", obj_name |-> "Pistol",
         reward_money |-> 100, reward_item |-> None, prerequisite_missions |-> <<>>])
 @@ ("Ryder's Mission" :>
        [name |-> "Ryder's Mission", obj_cls |-> "Weapon", obj_name |-> "Shotgun",
         reward_money |-> 150, reward_item |-> None,
         prerequisite_missions |-> <<"Sweet's Mission">>])
 @@ ("Big Smoke's Mission" :>
        [name |-> "Big Smoke's Mission", obj_cls |-> "MoneyBundle",
         obj_name |-> "Cash Bundle", reward_money |-> 200, reward_item |-> None,
         prerequisite_missions |-> <<"Sweet's Mission", "Ryder's Mission">>])

\* ------------------------------------------------------------ fresh world
\* Game.__init__ with _initialize_game_objects and _initialize_missions
Game_init ==
    [running |-> TRUE,
     game_time |-> 0,
     player |-> "CJ",
     next_id |-> 0,
     objects |-> <<"CJ", "sweet", "ryder", "big_smoke",
                   "pistol", "shotgun", "health_pack_1", "cash_bundle",
                   "ammu_nation", "cluckin_bell",
                   "gangster1", "gangster2", "police_officer",
                   "green_sabre", "police_car">>,
     npcs |-> << <<"sweet", "sweet">>, <<"ryder", "ryder">>,
                 <<"big_smoke", "big_smoke">> >>,
     items |-> << <<"pistol", "pistol">>, <<"shotgun", "shotgun">>,
                  <<"health_pack_1", "health_pack_1">>,
                  <<"cash_bundle", "cash_bundle">> >>,
     shops |-> << <<"ammu_nation", "ammu_nation">>,
                  <<"cluckin_bell", "cluckin_bell">> >>,
     enemies |-> << <<"gangster1", "gangster1">>, <<"gangster2", "gangster2">>,
                    <<"police_officer", "police_officer">> >>,
     vehicles |-> << <<"green_sabre", "green_sabre">>,
                     <<"police_car", "police_car">> >>,
     heap |->
        ("CJ" :> Player_init(MAP_WIDTH \div 2, MAP_HEIGHT \div 2))
     @@ ("sweet" :> [NPC_init(5, 5, "Sweet")
                        EXCEPT !.mission_offered = "Sweet's Mission"])
     @@ ("ryder" :> [NPC_init(10, 10, "Ryder")
                        EXCEPT !.mission_offered = "Ryder's Mission"])
     @@ ("big_smoke" :> [BigSmoke_init(20, 15)
                        EXCEPT !.mission_offered = "Big Smoke's Mission"])
     @@ ("pistol" :> Item_init("Weapon", 2, 2, "Pistol", 15, 75))
     @@ ("shotgun" :> Item_init("Weapon", MAP_WIDTH - 5, MAP_HEIGHT - 5,
                                "Shotgun", 30, 200))
     @@ ("health_pack_1" :> Item_init("HealthPack", 7, 7, "Small Health Pack", 25, 30))
     @@ ("cash_bundle" :> Item_init("MoneyBundle", MAP_WIDTH \div 4, MAP_HEIGHT \div 4,
                                    "Cash Bundle", 200, 200))
     @@ ("knife" :> Item_init("Weapon", 0, 0, "Knife", 10, 50))
     @@ ("uzi" :> Item_init("Weapon", 0, 0, "Uzi", 20, 150))
     @@ ("large_health_pack" :> Item_init("HealthPack", 0, 0, "Large Health Pack", 50, 75))
     @@ ("burger" :> Item_init("Food", 0, 0, "Cluckin' Bell Burger", 40, 15))
     @@ ("sprunk" :> Item_init("Drink", 0, 0, "Sprunk", 30, 10))
     @@ ("ammu_nation" :> Shop_init(MAP_WIDTH - 10, 5, "Ammu-Nation",
            << <<"knife", 50>>, <<"uzi", 150>>, <<"large_health_pack", 75>> >>))
     @@ ("cluckin_bell" :> Shop_init(MAP_WIDTH \div 2, 2, "Cluckin' Bell",
            << <<"burger", 15>>, <<"sprunk", 10>> >>))
     @@ ("gangster1" :> Enemy_init(15, 10, "Gangster", 40, 10, "Ballaz"))
     @@ ("gangster2" :> Enemy_init(25, 8, "Gangster", 40, 10, "Vagos"))
     @@ ("police_officer" :> Enemy_init(MAP_WIDTH - 2, 2, "Police Officer", 60, 15, "Police"))
     @@ ("green_sabre" :> Vehicle_init(30, 10, "Green Sabre", 100, 3))
     @@ ("police_car" :> Vehicle_init(MAP_WIDTH - 5, 15, "Police Car", 120, 4))]

\* ------------------------------------------------------------ GameObject / Character
ThePlayer(g) == g.heap[g.player]

\* a faulty take_damage: the health is not stopped at 0
Character_take_damage_unclamped(g, id, amount) ==
    [g EXCEPT !.heap[id].health = @ - amount]

\* Character.take_damage: subtract, floor at 0
Character_take_damage(g, id, amount) ==
    [g EXCEPT !.heap[id].health = IF @ - amount < 0 THEN 0 ELSE @ - amount]

\* the value take_damage returns, read off the state it leaves
take_damage_result(g, id) == g.heap[id].health = 0

\* Character.heal
Character_heal(g, id, amount) ==
    [g EXCEPT !.heap[id].health = clamp(@ + amount, 0, g.heap[id].max_health)]

\* Character.add_item
Character_add_item(g, id, item) ==
    [g EXCEPT !.heap[id].inventory = Append(@, item)]

\* Character.remove_item
Character_remove_item(g, id, item) ==
    IF item \in Range(g.heap[id].inventory)
    THEN [g EXCEPT !.heap[id].inventory = SeqRemoveFirst(@, item),
                   !.heap[id].current_weapon = IF @ = item THEN None ELSE @]
    ELSE g

\* a faulty equip_weapon: it equips whatever it is handed
Character_equip_weapon_any(g, id, weapon) ==
    [g EXCEPT !.heap[id].current_weapon = weapon]

\* Character.equip_weapon
Character_equip_weapon(g, id, weapon) ==
    IF weapon \in Range(g.heap[id].inventory) /\ g.heap[weapon].cls = "Weapon"
    THEN [g EXCEPT !.heap[id].current_weapon = weapon]
    ELSE g

\* Character.f: the damage dealt
attack_damage(g, attacker) ==
    IF g.heap[attacker].current_weapon # None
    THEN g.heap[g.heap[attacker].current_weapon].power
    ELSE FistDamage

\* Character.f: the state it leaves (it returns take_damage_result)
Character_f(g, attacker, target) ==
    Character_take_damage(g, target, attack_damage(g, attacker))

\* ------------------------------------------------------------ GameMap
InBounds(x, y) == 0 <= x /\ x < MAP_WIDTH /\ 0 <= y /\ y < MAP_HEIGHT

\* the test of GameMap.get_object_at for one object
Covers(o, x, y) ==
    IF IsBigSmoke(o)
    THEN (o.x = x /\ o.y = y) \/ (o.char2_x = x /\ o.char2_y = y)
    ELSE o.x = x /\ o.y = y

\* GameMap.get_object_at: the first object of the list found at (x, y)
GameMap_get_object_at(g, x, y) ==
    LET hits == {i \in 1..Len(g.objects) : Covers(g.heap[g.objects[i]], x, y)}
    IN IF hits = {} THEN None
       ELSE g.objects[CHOOSE i \in hits : \A j \in hits : i <= j]

\* GameMap.add_object
GameMap_add_object(g, id) == [g EXCEPT !.objects = Append(@, id)]

\* GameMap.remove_object
GameMap_remove_object(g, id) ==
    IF id \in Range(g.objects) THEN [g EXCEPT !.objects = SeqRemoveFirst(@, id)] ELSE g

\* ------------------------------------------------------------ Player
\* Player.discover_area: the cells it marks
VisibleCells(x, y) ==
    {<<x + dx, y + dy>> : <<dx, dy>> \in
        {d \in (-VISION_RADIUS..VISION_RADIUS) \X (-VISION_RADIUS..VISION_RADIUS) :
            /\ InBounds(x + d[1], y + d[2])
            /\ d[1] * d[1] + d[2] * d[2] <= VISION_RADIUS * VISION_RADIUS}}

Player_discover_area(g, id) ==
    [g EXCEPT !.heap[id].discovered_map = @ \cup VisibleCells(g.heap[id].x, g.heap[id].y)]

\* a faulty collision test: Big Smoke blocks his primary tile only
MoveBlocked_one_tile(g, skip, x, y) ==
    \E i \in 1..Len(g.objects) :
        /\ g.objects[i] \notin skip
        /\ x = g.heap[g.objects[i]].x /\ y = g.heap[g.objects[i]].y

\* the collision loop shared by Player.move and Vehicle.move: some object other
\* than those of skip stands on (x, y), Big Smoke on both of his cells
MoveBlocked(g, skip, x, y) ==
    \E i \in 1..Len(g.objects) :
        LET o == g.heap[g.objects[i]] IN
        /\ g.objects[i] \notin skip
        /\ IF IsBigSmoke(o)
           THEN (x = o.x /\ y = o.y) \/ (x = o.x + 1 /\ y = o.y)
           ELSE x = o.x /\ y = o.y

\* Vehicle.move
Vehicle_move(g, v, dx, dy, player) ==
    LET new_x == g.heap[v].x + dx
        new_y == g.heap[v].y + dy
        occ == g.heap[v].occupant
    IN IF ~InBounds(new_x, new_y) THEN g
       ELSE IF MoveBlocked(g, {v, occ}, new_x, new_y) THEN g
       ELSE LET g1 == [g EXCEPT !.heap[v].x = new_x, !.heap[v].y = new_y]
            IN IF occ # None
               THEN [g1 EXCEPT !.heap[occ].x = new_x, !.heap[occ].y = new_y,
                               !.heap[player].stamina =
                                   clamp(@ - 1, 0, g.heap[player].max_stamina)]
               ELSE g1

\* a faulty Player.move: a step on foot costs stamina even when it is rejected
Player_move_tires(g, id, dx, dy) ==
    LET p == g.heap[id]
        new_x == p.x + dx
        new_y == p.y + dy
        tired == [g EXCEPT !.heap[id].stamina = clamp(@ - StaminaScale, 0, p.max_stamina)]
    IN IF p.current_vehicle # None
       THEN Vehicle_move(g, p.current_vehicle, dx, dy, id)
       ELSE IF ~InBounds(new_x, new_y) THEN tired
       ELSE IF MoveBlocked(g, {id}, new_x, new_y) THEN tired
       ELSE [tired EXCEPT !.heap[id].x = new_x, !.heap[id].y = new_y]

\* Player.move
Player_move(g, id, dx, dy) ==
    LET p == g.heap[id]
        new_x == p.x + dx
        new_y == p.y + dy
    IN IF p.current_vehicle # None
       THEN Vehicle_move(g, p.current_vehicle, dx, dy, id)
       ELSE IF ~InBounds(new_x, new_y) THEN g
       ELSE IF MoveBlocked(g, {id}, new_x, new_y) THEN g
       ELSE [g EXCEPT !.heap[id].x = new_x, !.heap[id].y = new_y,
                      !.heap[id].stamina = clamp(@ - StaminaScale, 0, p.max_stamina)]

\* a faulty update_needs: hunger and thirst at 0 do no damage
Player_update_needs_painless(g, id) ==
    [g EXCEPT !.heap[id].hunger = clamp(@ - 1, 0, NeedsMax),
              !.heap[id].thirst = clamp(@ - 1, 0, NeedsMax)]

\* Player.update_needs
Player_update_needs(g, id) ==
    LET g1 == [g EXCEPT !.heap[id].hunger = clamp(@ - 1, 0, NeedsMax),
                        !.heap[id].thirst = clamp(@ - 1, 0, NeedsMax)]
    IN IF g1.heap[id].hunger <= 0 \/ g1.heap[id].thirst <= 0
       THEN Character_take_damage(g1, id, StarveDamage)
       ELSE g1

\* Player.add_wanted_level
Player_add_wanted_level(g, id, amount) ==
    [g EXCEPT !.heap[id].wanted_level = clamp(@ + amount, 0, MAX_WANTED_LEVEL)]

\* a faulty reduce_wanted_level: the level stays as it is
Player_reduce_wanted_level_kept(g, id, amount) == g

\* Player.reduce_wanted_level
Player_reduce_wanted_level(g, id, amount) ==
    [g EXCEPT !.heap[id].wanted_level = clamp(@ - amount, 0, MAX_WANTED_LEVEL)]

\* ------------------------------------------------------------ Vehicle
\* Vehicle.enter; it returns TRUE exactly when the occupant was None
Vehicle_enter(g, v, character) ==
    IF g.heap[v].occupant = None
    THEN [g EXCEPT !.heap[v].occupant = character,
                   !.heap[character].current_vehicle = v]
    ELSE g

\* a faulty Vehicle.exit: the character leaves, the vehicle keeps its occupant
Vehicle_exit_keeps_occupant(g, v, character) ==
    IF g.heap[v].occupant = character
    THEN [g EXCEPT !.heap[character].current_vehicle = None,
                   !.heap[character].x = g.heap[v].x + 1,
                   !.heap[character].y = g.heap[v].y]
    ELSE g

\* Vehicle.exit
Vehicle_exit(g, v, character) ==
    IF g.heap[v].occupant = character
    THEN [g EXCEPT !.heap[v].occupant = None,
                   !.heap[character].current_vehicle = None,
                   !.heap[character].x = g.heap[v].x + 1,
                   !.heap[character].y = g.heap[v].y]
    ELSE g

\* ------------------------------------------------------------ Mission / NPC
\* Mission.is_completed with the objective functions of _initialize_missions
Mission_is_completed(g, m, player) ==
    \E i \in 1..Len(g.heap[player].inventory) :
        LET it == g.heap[g.heap[player].inventory[i]] IN
        it.cls = Missions[m].obj_cls /\ it.name = Missions[m].obj_name

\* a faulty Mission.complete: the reward money is not paid
Mission_complete_unpaid(g, m, player) ==
    IF Missions[m].reward_item # None
    THEN Character_add_item(g, player, Missions[m].reward_item)
    ELSE g

\* Mission.complete
Mission_complete(g, m, player) ==
    LET g1 == [g EXCEPT !.heap[player].money = @ + Missions[m].reward_money]
    IN IF Missions[m].reward_item # None
       THEN Character_add_item(g1, player, Missions[m].reward_item)
       ELSE g1

\* a faulty completion branch: the NPC's mission_completed flag is not set
CompleteMission_unmarked(g, npc, player) ==
    LET m == g.heap[npc].mission_offered
        g1 == Mission_complete(g, m, player)
    IN [g1 EXCEPT !.heap[player].missions_completed = Append(@, m),
                  !.heap[player].current_mission = None]

\* the completion branch of NPC.talk and BigSmoke.talk
CompleteMission(g, npc, player) ==
    LET m == g.heap[npc].mission_offered
        g1 == Mission_complete(g, m, player)
    IN [g1 EXCEPT !.heap[player].missions_completed = Append(@, m),
                  !.heap[player].current_mission = None,
                  !.heap[npc].mission_completed = TRUE]

\* the accept prompt of NPC.talk and BigSmoke.talk; yes: the line typed is "yes"
OfferMission(g, npc, player, yes) ==
    IF g.heap[player].current_mission = None /\ yes
    THEN [g EXCEPT !.heap[player].current_mission = g.heap[npc].mission_offered]
    ELSE g

\* NPC.talk
NPC_talk(g, npc, player, yes) ==
    LET n == g.heap[npc] IN
    IF n.mission_offered # None /\ ~n.mission_completed
    THEN IF Mission_is_completed(g, n.mission_offered, player)
         THEN CompleteMission(g, npc, player)
         ELSE OfferMission(g, npc, player, yes)
    ELSE g

\* BigSmoke.talk
BigSmoke_talk(g, npc, player, yes) ==
    LET n == g.heap[npc]
        done == Range(g.heap[player].missions_completed)
        has_cash_bundle ==
            \E i \in 1..Len(g.heap[player].inventory) :
                LET it == g.heap[g.heap[player].inventory[i]] IN
                it.cls = "MoneyBundle" /\ it.name = "Cash Bundle"
    IN IF "Sweet's Mission" \in done /\ "Ryder's Mission" \in done
       THEN IF ~n.mission_completed
            THEN IF has_cash_bundle
                 THEN IF n.mission_offered # None /\ ~n.mission_completed
                         /\ Mission_is_completed(g, n.mission_offered, player)
                      THEN CompleteMission(g, npc, player)
                      ELSE g
                 ELSE OfferMission(g, npc, player, yes)
            ELSE g
       ELSE g

\* obj.talk(player), dispatched on the class
Talk(g, npc, player, yes) ==
    IF IsBigSmoke(g.heap[npc]) THEN BigSmoke_talk(g, npc, player, yes)
    ELSE NPC_talk(g, npc, player, yes)

\* ------------------------------------------------------------ Enemy
\* the list shuffled by Enemy.move_randomly
possible_moves == << <<0, 1>>, <<0, -1>>, <<1, 0>>, <<-1, 0>> >>

\* the k-th order random.shuffle can leave possible_moves in (k in 0..23): the
\* move k % 4 first, the other three in the (k \div 4) % 6 -th order
ShuffleOrder(k) ==
    LET first == (k % 4) + 1
        rest == SelectSeq(<<1, 2, 3, 4>>, LAMBDA i : i # first)
        r == (k \div 4) % 6
        a == (r \div 2) + 1
        rest2 == SelectSeq(rest, LAMBDA i : i # rest[a])
        b == (r % 2) + 1
        c == 3 - b
    IN <<possible_moves[first], possible_moves[rest[a]],
         possible_moves[rest2[b]], possible_moves[rest2[c]]>>

\* the occupancy loop of Enemy.move_randomly and Enemy.move_towards: it compares
\* the primary position of every other map object
EnemyCellFree(g, e, x, y) ==
    /\ InBounds(x, y)
    /\ \A i \in 1..Len(g.objects) :
          g.objects[i] = e \/ ~(g.heap[g.objects[i]].x = x /\ g.heap[g.objects[i]].y = y)

\* Enemy.move_randomly, with the order the shuffle produced
Enemy_move_randomly(g, e, order) ==
    LET ok == {i \in 1..Len(order) :
                  EnemyCellFree(g, e, g.heap[e].x + order[i][1], g.heap[e].y + order[i][2])}
    IN IF ok = {} THEN g
       ELSE LET i == CHOOSE i \in ok : \A j \in ok : i <= j
            IN [g EXCEPT !.heap[e].x = @ + order[i][1], !.heap[e].y = @ + order[i][2]]

Sign(a, b) == IF a > b THEN 1 ELSE IF a < b THEN -1 ELSE 0

\* Enemy.move_towards returns TRUE exactly when this holds
move_towards_result(g, e, target_x, target_y) ==
    EnemyCellFree(g, e, g.heap[e].x + Sign(target_x, g.heap[e].x),
                        g.heap[e].y + Sign(target_y, g.heap[e].y))

\* Enemy.move_towards
Enemy_move_towards(g, e, target_x, target_y) ==
    IF move_towards_result(g, e, target_x, target_y)
    THEN [g EXCEPT !.heap[e].x = @ + Sign(target_x, g.heap[e].x),
                   !.heap[e].y = @ + Sign(target_y, g.heap[e].y)]
    ELSE g

\* Enemy.take_turn
Enemy_take_turn(g, e, player, order) ==
    LET en == g.heap[e]
        p == g.heap[player]
        dx == Sign(p.x, en.x)
        dy == Sign(p.y, en.y)
    IN IF en.health <= 0 THEN g
       ELSE IF en.faction = "Police" /\ p.wanted_level > 0
       THEN IF (dx # 0 \/ dy # 0) /\ move_towards_result(g, e, p.x, p.y)
            THEN Enemy_move_towards(g, e, p.x, p.y)
            ELSE Enemy_move_randomly(g, e, order)
       ELSE IF Abs(en.x - p.x) <= 1 /\ Abs(en.y - p.y) <= 1
            THEN Character_f(g, e, player)
            ELSE Enemy_move_randomly(g, e, order)

\* ------------------------------------------------------------ Game dictionaries
\* a dict is the sequence of its <<key, value>> pairs in insertion order
DictKeys(d) == {d[i][1] : i \in 1..Len(d)}
DictValues(d) == [i \in 1..Len(d) |-> d[i][2]]

\* d[key] = value
DictSet(d, key, value) ==
    IF key \in DictKeys(d)
    THEN [i \in 1..Len(d) |-> IF d[i][1] = key THEN <<key, value>> ELSE d[i]]
    ELSE Append(d, <<key, value>>)

\* the loop of handle_input that deletes the first entry holding value
DictDelValue(d, value) ==
    LET hits == {i \in 1..Len(d) : d[i][2] = value}
    IN IF hits = {} THEN d
       ELSE LET k == CHOOSE i \in hits : \A j \in hits : i <= j
            IN [i \in 1..(Len(d) - 1) |-> IF i < k THEN d[i] ELSE d[i + 1]]

\* ------------------------------------------------------------ police spawn
RECURSIVE SpawnLoop(_, _, _)
\* the for loop of Game.spawn_police; offsets: the pairs random.randint drew.
\* wanted_level does not change inside the loop
SpawnLoop(g, offsets, i) ==
    IF i > Len(offsets) THEN g
    ELSE LET p == ThePlayer(g)
             spawn_x == clamp(p.x + offsets[i][1], 0, MAP_WIDTH - 1)
             spawn_y == clamp(p.y + offsets[i][2], 0, MAP_HEIGHT - 1)
             id == "cop" \o ToString(g.next_id)
         IN IF GameMap_get_object_at(g, spawn_x, spawn_y) = None
            THEN SpawnLoop(
                    [GameMap_add_object(g, id) EXCEPT
                        !.heap = @ @@ (id :> Enemy_init(spawn_x, spawn_y, "Police Officer",
                                                        60 + p.wanted_level * 10,
                                                        15 + p.wanted_level * 5, "Police")),
                        !.enemies = DictSet(@, "police_" \o ToString(Len(g.enemies)), id),
                        !.next_id = @ + 1],
                    offsets, i + 1)
            ELSE SpawnLoop(g, offsets, i + 1)

\* a faulty spawn_police: the officers are placed without looking at the cell
Game_spawn_police_unchecked(g, offsets) ==
    LET p == ThePlayer(g)
        n == IF p.wanted_level > 0 THEN Len(offsets) ELSE 0
        id(i) == "cop" \o ToString(g.next_id + i - 1)
    IN [g EXCEPT
          !.objects = @ \o [i \in 1..n |-> id(i)],
          !.heap = @ @@ [c \in {id(i) : i \in 1..n} |->
                          LET i == CHOOSE j \in 1..n : id(j) = c
                          IN Enemy_init(clamp(p.x + offsets[i][1], 0, MAP_WIDTH - 1),
                                        clamp(p.y + offsets[i][2], 0, MAP_HEIGHT - 1),
                                        "Police Officer", 60 + p.wanted_level * 10,
                                        15 + p.wanted_level * 5, "Police")],
          !.enemies = @ \o [i \in 1..n |->
                              <<"police_" \o ToString(Len(g.enemies) + i - 1), id(i)>>],
          !.next_id = @ + n]

\* Game.spawn_police
Game_spawn_police(g, offsets) ==
    IF ThePlayer(g).wanted_level > 0 THEN SpawnLoop(g, offsets, 1) ELSE g

\* ------------------------------------------------------------ to_dict
\* the key under which each Item subclass stores its own attribute
PowerKey(cls) ==
    CASE cls = "Weapon" -> "damage"
      [] cls = "HealthPack" -> "heal_amount"
      [] cls = "MoneyBundle" -> "amount"
      [] cls = "Food" -> "hunger_restore"
      [] cls = "Drink" -> "thirst_restore"
      [] OTHER -> "none"

\* the glyph field "char", by class
CharOf(cls) ==
    CASE cls = "Player" -> "C"
      [] cls = "NPC" -> "N"
      [] cls = "BigSmoke" -> "B"
      [] cls = "Enemy" -> "E"
      [] cls = "Shop" -> "S"
      [] cls = "Vehicle" -> "V"
      [] OTHER -> "I"

\* GameObject.to_dict
GameObject_to_dict(o) ==
    [x |-> o.x, y |-> o.y, char |-> CharOf(o.cls), name |-> o.name, type |-> o.cls]

\* Item.to_dict and the to_dict of its subclasses
Item_to_dict(o) ==
    IF o.cls = "Item"
    THEN GameObject_to_dict(o) @@ [value |-> o.value]
    ELSE GameObject_to_dict(o) @@ [value |-> o.value] @@ (PowerKey(o.cls) :> o.power)

\* Character.to_dict: items by value, the weapon by name
Character_to_dict(g, o) ==
    GameObject_to_dict(o) @@
    [health |-> o.health, max_health |-> o.max_health, money |-> o.money,
     stamina |-> o.stamina, max_stamina |-> o.max_stamina,
     inventory |-> [i \in 1..Len(o.inventory) |-> Item_to_dict(g.heap[o.inventory[i]])],
     current_weapon |-> IF o.current_weapon # None
                        THEN g.heap[o.current_weapon].name ELSE None]

\* Player.to_dict: the mission and the vehicle by name
Player_to_dict(g, o) ==
    Character_to_dict(g, o) @@
    [discovered_map |-> o.discovered_map,
     missions_completed |-> o.missions_completed,
     current_mission |-> o.current_mission,
     wanted_level |-> o.wanted_level, hunger |-> o.hunger, thirst |-> o.thirst,
     driving_skill |-> o.driving_skill, weapon_skill |-> o.weapon_skill,
     current_vehicle |-> IF o.current_vehicle # None
                         THEN g.heap[o.current_vehicle].name ELSE None]

\* NPC.to_dict and BigSmoke.to_dict
NPC_to_dict(g, o) ==
    IF IsBigSmoke(o)
    THEN Character_to_dict(g, o) @@
         [mission_offered |-> o.mission_offered, mission_completed |-> o.mission_completed,
          char2_x |-> o.char2_x, char2_y |-> o.char2_y]
    ELSE Character_to_dict(g, o) @@
         [mission_offered |-> o.mission_offered, mission_completed |-> o.mission_completed]

\* Enemy.to_dict
Enemy_to_dict(g, o) ==
    Character_to_dict(g, o) @@ [damage |-> o.damage, faction |-> o.faction]

\* Shop.to_dict
Shop_to_dict(g, o) ==
    GameObject_to_dict(o) @@
    [inventory |-> [i \in 1..Len(o.inventory) |->
                       <<Item_to_dict(g.heap[o.inventory[i][1]]), o.inventory[i][2]>>]]

\* Vehicle.to_dict: the occupant by name
Vehicle_to_dict(g, o) ==
    GameObject_to_dict(o) @@
    [health |-> o.health, max_health |-> o.max_health, speed |-> o.speed,
     occupant |-> IF o.occupant # None THEN g.heap[o.occupant].name ELSE None]

\* ------------------------------------------------------------ save_game
\* the document Game.save_game writes
SaveDocument(g) ==
    [version |-> SAVE_FILE_VERSION,
     game_time |-> g.game_time,
     player |-> Player_to_dict(g, ThePlayer(g)),
     npcs |-> [i \in 1..Len(g.npcs) |-> <<g.npcs[i][1], NPC_to_dict(g, g.heap[g.npcs[i][2]])>>],
     shops |-> [i \in 1..Len(g.shops) |->
                   <<g.shops[i][1], Shop_to_dict(g, g.heap[g.shops[i][2]])>>],
     enemies |-> [i \in 1..Len(g.enemies) |->
                   <<g.enemies[i][1], Enemy_to_dict(g, g.heap[g.enemies[i][2]])>>],
     vehicles |-> [i \in 1..Len(g.vehicles) |->
                   <<g.vehicles[i][1], Vehicle_to_dict(g, g.heap[g.vehicles[i][2]])>>],
     items_on_map |->
        LET on_map == SelectSeq(g.objects, LAMBDA id :
                          IsItem(g.heap[id]) /\ id \notin Range(ThePlayer(g).inventory))
        IN [i \in 1..Len(on_map) |-> Item_to_dict(g.heap[on_map[i]])]]

\* the save file: absent, not JSON, or a document
FileMissing == [kind |-> "missing", data |-> <<>>]
FileCorrupt == [kind |-> "corrupt", data |-> <<>>]
FileOf(doc) == [kind |-> "json", data |-> doc]

\* Game.save_game: the file it leaves
Game_save_game(g) == FileOf(SaveDocument(g))

\* ------------------------------------------------------------ from_dict
\* dict.get(key, default)
Get(d, key, default) == IF key \in DOMAIN d THEN d[key] ELSE default

HasKeys(d, keys) == keys \subseteq DOMAIN d

\* the numbers of positional arguments each __init__ accepts (self not counted)
CtorArgs(cls) ==
    CASE cls = "Player" -> 2..2
      [] cls = "NPC" -> 4..5
      [] cls = "Character" -> 5..7
      [] OTHER -> {}

RECURSIVE HeapOf(_, _, _)
\* the objects recs[i..], stored under the identities ids[i..]
HeapOf(ids, recs, i) ==
    IF i > Len(ids) THEN <<>>
    ELSE (ids[i] :> recs[i]) @@ HeapOf(ids, recs, i + 1)

\* ItemFactory.create_item_from_dict raises KeyError on a missing mandatory key
Item_from_dict_raises(data) == ~HasKeys(data, {"x", "y", "name"})

\* the default each Item subclass's from_dict gives its own attribute
PowerDefault(cls) ==
    CASE cls = "Weapon" -> 1
      [] cls = "HealthPack" -> 25
      [] cls = "MoneyBundle" -> 0
      [] cls = "Food" -> 20
      [] cls = "Drink" -> 20
      [] OTHER -> 0

\* ItemFactory.create_item_from_dict with the from_dict of the class it picks
ItemFactory_create_item_from_dict(data) ==
    LET t == Get(data, "type", "Item")
        cls == IF t \in ItemClasses THEN t ELSE "Item"
        power == Get(data, PowerKey(cls), PowerDefault(cls))
    IN Item_init(cls, data.x, data.y, data.name, power,
                 IF cls = "MoneyBundle" THEN power ELSE Get(data, "value", 0))

\* the identities of the items rebuilt for an inventory
InvIds(owner, n) == [i \in 1..n |-> owner \o "_inv" \o ToString(i)]

\* Character.from_dict raises: KeyError on a missing mandatory key, TypeError when
\* cls(...) is given the 7 positional arguments the class does not accept
Character_from_dict_raises(cls, data) ==
    \/ ~HasKeys(data, {"x", "y", "char", "name", "health"})
    \/ 7 \notin CtorArgs(cls)
    \/ \E i \in 1..Len(Get(data, "inventory", <<>>)) :
          Item_from_dict_raises(data.inventory[i])

\* the attributes Character.from_dict sets; id: the identity of the new object
Character_from_dict(data, id) ==
    LET inv == Get(data, "inventory", <<>>)
        ids == InvIds(id, Len(inv))
        items == [i \in 1..Len(inv) |-> ItemFactory_create_item_from_dict(inv[i])]
        stamina == Get(data, "stamina", 100 * StaminaScale)
        cw == Get(data, "current_weapon", None)
        named == {i \in 1..Len(inv) : items[i].cls = "Weapon" /\ items[i].name = cw}
    IN [fields |->
           [name |-> data.name, x |-> data.x, y |-> data.y,
            health |-> data.health, max_health |-> Get(data, "max_health", data.health),
            money |-> Get(data, "money", 0),
            stamina |-> stamina, max_stamina |-> Get(data, "max_stamina", stamina),
            inventory |-> ids,
            current_weapon |-> IF cw # None /\ named # {}
                               THEN ids[CHOOSE i \in named : \A j \in named : i <= j]
                               ELSE None],
        items |-> HeapOf(ids, items, 1)]

\* Player.from_dict
Player_from_dict_raises(data) == Character_from_dict_raises("Player", data)

Player_from_dict(data, id) ==
    LET c == Character_from_dict(data, id)
    IN [obj |-> c.fields @@
                [cls |-> "Player",
                 discovered_map |-> Get(data, "discovered_map", {}),
                 missions_completed |-> Get(data, "missions_completed", <<>>),
                 wanted_level |-> Get(data, "wanted_level", 0),
                 hunger |-> Get(data, "hunger", 100),
                 thirst |-> Get(data, "thirst", 100),
                 driving_skill |-> Get(data, "driving_skill", 1),
                 weapon_skill |-> Get(data, "weapon_skill", 1),
                 current_vehicle |-> None, current_mission |-> None],
        items |-> c.items]

\* NPC.from_dict and BigSmoke.from_dict
NPC_from_dict_raises(data) ==
    IF Get(data, "type", None) = "BigSmoke"
    THEN \/ ~HasKeys(data, {"x", "y"})
         \/ \E i \in 1..Len(Get(data, "inventory", <<>>)) :
               Item_from_dict_raises(data.inventory[i])
    ELSE Character_from_dict_raises("NPC", data)

NPC_from_dict(data, id) ==
    IF Get(data, "type", None) = "BigSmoke"
    THEN LET inv == Get(data, "inventory", <<>>)
             ids == InvIds(id, Len(inv))
             health == Get(data, "health", 50)
             stamina == Get(data, "stamina", 100 * StaminaScale)
         IN [obj |-> [BigSmoke_init(data.x, data.y) EXCEPT
                         !.health = health,
                         !.max_health = Get(data, "max_health", health),
                         !.money = Get(data, "money", 0),
                         !.stamina = stamina,
                         !.max_stamina = Get(data, "max_stamina", stamina),
                         !.inventory = ids,
                         !.mission_completed = Get(data, "mission_completed", FALSE)],
             items |-> HeapOf(ids, [i \in 1..Len(inv) |->
                                       ItemFactory_create_item_from_dict(inv[i])], 1)]
    ELSE LET c == Character_from_dict(data, id)
         IN [obj |-> c.fields @@
                     [cls |-> "NPC", mission_offered |-> None,
                      mission_completed |-> Get(data, "mission_completed", FALSE)],
             items |-> c.items]

\* Enemy.from_dict
Enemy_from_dict_raises(data) ==
    \/ ~HasKeys(data, {"x", "y", "name"})
    \/ \E i \in 1..Len(Get(data, "inventory", <<>>)) :
          Item_from_dict_raises(data.inventory[i])

Enemy_from_dict(data, id) ==
    LET inv == Get(data, "inventory", <<>>)
        ids == InvIds(id, Len(inv))
        health == Get(data, "health", 40)
        stamina == Get(data, "stamina", 100 * StaminaScale)
    IN [obj |-> [Enemy_init(data.x, data.y, data.name, health,
                            Get(data, "damage", 10), Get(data, "faction", "Gang")) EXCEPT
                    !.max_health = Get(data, "max_health", health),
                    !.money = Get(data, "money", 0),
                    !.stamina = stamina,
                    !.max_stamina = Get(data, "max_stamina", stamina),
                    !.inventory = ids],
        items |-> HeapOf(ids, [i \in 1..Len(inv) |->
                                  ItemFactory_create_item_from_dict(inv[i])], 1)]

\* Shop.from_dict
Shop_from_dict_raises(data) ==
    \/ ~HasKeys(data, {"x", "y", "name"})
    \/ \E i \in 1..Len(Get(data, "inventory", <<>>)) :
          Item_from_dict_raises(data.inventory[i][1])

Shop_from_dict(data, id) ==
    LET inv == Get(data, "inventory", <<>>)
        ids == [i \in 1..Len(inv) |-> id \o "_item" \o ToString(i)]
    IN [obj |-> Shop_init(data.x, data.y, data.name,
                          [i \in 1..Len(inv) |-> <<ids[i], inv[i][2]>>]),
        items |-> HeapOf(ids, [i \in 1..Len(inv) |->
                                  ItemFactory_create_item_from_dict(inv[i][1])], 1)]

\* Vehicle.from_dict
Vehicle_from_dict_raises(data) == ~HasKeys(data, {"x", "y", "name"})

Vehicle_from_dict(data) ==
    [Vehicle_init(data.x, data.y, data.name, Get(data, "health", 100), Get(data, "speed", 1))
        EXCEPT !.max_health = Get(data, "max_health", Get(data, "health", 100))]

\* ------------------------------------------------------------ load_game
RECURSIVE HeapOfParts(_, _, _)
\* the heap of rebuilt objects parts[i..] (each with the items it holds)
HeapOfParts(ids, parts, i) ==
    IF i > Len(ids) THEN <<>>
    ELSE (ids[i] :> parts[i].obj) @@ parts[i].items @@ HeapOfParts(ids, parts, i + 1)

RECURSIVE DictOfSeq(_, _, _)
\* the dict left by d[keys[i]] = values[i] for i, i + 1, ...
DictOfSeq(keys, values, i) ==
    IF i > Len(keys) THEN <<>>
    ELSE LET rest == DictOfSeq(keys, values, i + 1)
         IN IF keys[i] \in DictKeys(rest)
            THEN <<<<keys[i], rest[CHOOSE j \in 1..Len(rest) : rest[j][1] = keys[i]][2]>>>>
                 \o SelectSeq(rest, LAMBDA kv : kv[1] # keys[i])
            ELSE <<<<keys[i], values[i]>>>> \o rest

\* an exception is raised inside the try block of Game.load_game
LoadRaises(data) ==
    \/ ~HasKeys(data, {"player"})
    \/ Player_from_dict_raises(data.player)
    \/ \E i \in 1..Len(Get(data, "npcs", <<>>)) : NPC_from_dict_raises(data.npcs[i][2])
    \/ \E i \in 1..Len(Get(data, "shops", <<>>)) : Shop_from_dict_raises(data.shops[i][2])
    \/ \E i \in 1..Len(Get(data, "enemies", <<>>)) : Enemy_from_dict_raises(data.enemies[i][2])
    \/ \E i \in 1..Len(Get(data, "vehicles", <<>>)) :
          Vehicle_from_dict_raises(data.vehicles[i][2])
    \/ \E i \in 1..Len(Get(data, "items_on_map", <<>>)) :
          Item_from_dict_raises(data.items_on_map[i])

\* the try block of Game.load_game run to its end
LoadRebuild(g, data) ==
    LET pl == Player_from_dict(data.player, "CJ")
        npcs == Get(data, "npcs", <<>>)
        shops == Get(data, "shops", <<>>)
        enemies == Get(data, "enemies", <<>>)
        vehicles == Get(data, "vehicles", <<>>)
        items == Get(data, "items_on_map", <<>>)
        npc_ids == [i \in 1..Len(npcs) |-> npcs[i][1]]
        shop_ids == [i \in 1..Len(shops) |-> shops[i][1]]
        enemy_ids == [i \in 1..Len(enemies) |-> enemies[i][1]]
        vehicle_ids == [i \in 1..Len(vehicles) |-> vehicles[i][1]]
        item_ids == [i \in 1..Len(items) |-> "map_item" \o ToString(i)]
        linked(i) == Get(vehicles[i][2], "occupant", None) = pl.obj.name
        driven == {i \in 1..Len(vehicles) : linked(i)}
        mission == Get(data.player, "current_mission", None)
        npc_parts == [i \in 1..Len(npcs) |->
            LET part == NPC_from_dict(npcs[i][2], npc_ids[i])
                m == Get(npcs[i][2], "mission_offered", None)
            IN [part EXCEPT !.obj.mission_offered =
                    IF m # None /\ m \in DOMAIN Missions THEN m ELSE None]]
        vehicle_parts == [i \in 1..Len(vehicles) |->
            [obj |-> [Vehicle_from_dict(vehicles[i][2]) EXCEPT
                         !.occupant = IF linked(i) THEN "CJ" ELSE None],
             items |-> <<>>]]
        player_obj == [pl.obj EXCEPT
            !.current_vehicle =
                IF driven = {} THEN None
                ELSE vehicle_ids[CHOOSE i \in driven : \A j \in driven : i >= j],
            !.current_mission =
                IF mission # None /\ mission \in DOMAIN Missions THEN mission ELSE None]
        item_objs == [i \in 1..Len(items) |-> ItemFactory_create_item_from_dict(items[i])]
    IN [running |-> g.running,
        game_time |-> Get(data, "game_time", 0),
        player |-> "CJ",
        next_id |-> g.next_id,
        objects |-> <<"CJ">> \o npc_ids \o shop_ids \o enemy_ids \o vehicle_ids \o item_ids,
        npcs |-> [i \in 1..Len(npcs) |-> <<npc_ids[i], npc_ids[i]>>],
        items |-> DictOfSeq([i \in 1..Len(items) |-> item_objs[i].name], item_ids, 1),
        shops |-> [i \in 1..Len(shops) |-> <<shop_ids[i], shop_ids[i]>>],
        enemies |-> [i \in 1..Len(enemies) |-> <<enemy_ids[i], enemy_ids[i]>>],
        vehicles |-> [i \in 1..Len(vehicles) |-> <<vehicle_ids[i], vehicle_ids[i]>>],
        heap |-> ("CJ" :> player_obj) @@ pl.items
                 @@ HeapOfParts(npc_ids, npc_parts, 1)
                 @@ HeapOfParts(shop_ids,
                        [i \in 1..Len(shops) |-> Shop_from_dict(shops[i][2], shop_ids[i])], 1)
                 @@ HeapOfParts(enemy_ids,
                        [i \in 1..Len(enemies) |->
                            Enemy_from_dict(enemies[i][2], enemy_ids[i])], 1)
                 @@ HeapOfParts(vehicle_ids, vehicle_parts, 1)
                 @@ HeapOf(item_ids, item_objs, 1)]

\* faulty except handlers: the world is left as the failed load found it
LoadFallback_keeps(g) == g

\* the except handlers of Game.load_game: _initialized = False; __init__()
LoadFallback(g) == Game_init

\* Game.load_game
Game_load_game(g, f) ==
    IF f.kind = "missing" THEN LoadFallback(g)
    ELSE IF f.kind = "corrupt" THEN LoadFallback(g)
    ELSE IF LoadRaises(f.data) THEN LoadFallback(g)
    ELSE LoadRebuild(g, f.data)

\* ------------------------------------------------------------ Shop.enter
\* a line typed at a numbered prompt: a number, or text int() rejects
Line(numeric, value) == [numeric |-> numeric, value |-> value]
ZeroLine == Line(TRUE, 0)

\* a faulty purchase: the price is not compared with the player's money
Shop_buy_on_credit(g, shop, player, c) ==
    LET inv == g.heap[shop].inventory IN
    IF c.numeric /\ 1 <= c.value /\ c.value <= Len(inv)
    THEN Character_add_item(
            [g EXCEPT !.heap[player].money = @ - inv[c.value][2]],
            player, inv[c.value][1])
    ELSE g

\* one pass of the prompt loop of Shop.enter, for a line c other than "0"
Shop_buy(g, shop, player, c) ==
    LET inv == g.heap[shop].inventory IN
    IF c.numeric /\ 1 <= c.value /\ c.value <= Len(inv)
          /\ g.heap[player].money >= inv[c.value][2]
    THEN Character_add_item(
            [g EXCEPT !.heap[player].money = @ - inv[c.value][2]],
            player, inv[c.value][1])
    ELSE g

RECURSIVE Shop_enter(_, _, _, _)
\* Shop.enter: the prompt loop over the lines typed before the closing 0
Shop_enter(g, shop, player, lines) ==
    IF lines = <<>> \/ Head(lines) = ZeroLine THEN g
    ELSE Shop_enter(Shop_buy(g, shop, player, Head(lines)), shop, player, Tail(lines))

\* ------------------------------------------------------------ handle_input
\* the cells scanned by the interact and attack commands, as (dx, dy), in the
\* order of the two nested loops
ScanOrder == << <<-1, -1>>, <<0, -1>>, <<1, -1>>, <<-1, 0>>, <<1, 0>>,
                <<-1, 1>>, <<0, 1>>, <<1, 1>> >>

\* a faulty prerequisite loop: it never finds a prerequisite missing
all_prereqs_met_unchecked(g, npc, player) == TRUE

\* the prerequisite loop of the interact command
all_prereqs_met(g, npc, player) ==
    LET pre == Missions[g.heap[npc].mission_offered].prerequisite_missions
    IN \A i \in 1..Len(pre) : pre[i] \in Range(g.heap[player].missions_completed)

RECURSIVE InteractScan(_, _, _, _, _, _, _)
\* key 'e': the scan from cell i of ScanOrder on; it stops at the first interaction
InteractScan(g, player, cx, cy, i, yes, lines) ==
    IF i > Len(ScanOrder) THEN g
    ELSE LET obj == GameMap_get_object_at(g, cx + ScanOrder[i][1], cy + ScanOrder[i][2])
             next == InteractScan(g, player, cx, cy, i + 1, yes, lines)
         IN IF obj = None THEN next
            ELSE IF IsNPC(g.heap[obj])
            THEN IF g.heap[obj].mission_offered # None
                 THEN IF all_prereqs_met(g, obj, player)
                      THEN Talk(g, obj, player, yes)
                      ELSE next
                 ELSE Talk(g, obj, player, yes)
            ELSE IF IsItem(g.heap[obj])
            THEN GameMap_remove_object(Character_add_item(g, player, obj), obj)
            ELSE IF IsShop(g.heap[obj])
            THEN Shop_enter(g, obj, player, lines)
            ELSE IF IsVehicle(g.heap[obj]) /\ g.heap[player].current_vehicle = None
            THEN IF g.heap[obj].occupant = None
                 THEN Vehicle_enter(g, obj, player)
                 ELSE next
            ELSE next

\* key 'x'
ExitVehicle(g, player) ==
    IF g.heap[player].current_vehicle # None
    THEN Vehicle_exit(g, g.heap[player].current_vehicle, player)
    ELSE g

\* key 'u', after the menu: the numbered line typed was c (not "0")
UseItem(g, player, c) ==
    LET inv == g.heap[player].inventory IN
    IF c.numeric /\ 1 <= c.value /\ c.value <= Len(inv)
    THEN LET selected_item == inv[c.value]
             it == g.heap[selected_item]
         IN CASE it.cls = "HealthPack" ->
                    Character_remove_item(Character_heal(g, player, it.power),
                                          player, selected_item)
              [] it.cls = "Weapon" -> Character_equip_weapon(g, player, selected_item)
              [] it.cls = "Food" ->
                    Character_remove_item(
                        [g EXCEPT !.heap[player].hunger = clamp(@ + it.power, 0, NeedsMax)],
                        player, selected_item)
              [] it.cls = "Drink" ->
                    Character_remove_item(
                        [g EXCEPT !.heap[player].thirst = clamp(@ + it.power, 0, NeedsMax)],
                        player, selected_item)
              [] OTHER -> g
    ELSE g

\* key 'f': the first enemy found by the scan, or None
AttackTarget(g, player) ==
    LET p == g.heap[player]
        at(i) == GameMap_get_object_at(g, p.x + ScanOrder[i][1], p.y + ScanOrder[i][2])
        hits == {i \in 1..Len(ScanOrder) : at(i) # None /\ IsEnemy(g.heap[at(i)])}
    IN IF hits = {} THEN None ELSE at(CHOOSE i \in hits : \A j \in hits : i <= j)

\* a faulty attack: a defeated enemy stays in the enemy collection
Attack_keeps_enemy(g, player) ==
    LET target_enemy == AttackTarget(g, player) IN
    IF target_enemy = None THEN g
    ELSE LET g1 == Character_f(g, player, target_enemy)
         IN IF take_damage_result(g1, target_enemy)
            THEN Player_add_wanted_level(
                    GameMap_remove_object(g1, target_enemy), player,
                    IF g1.heap[target_enemy].faction = "Police" THEN 2 ELSE 1)
            ELSE g1

\* key 'f'
Attack(g, player) ==
    LET target_enemy == AttackTarget(g, player) IN
    IF target_enemy = None THEN g
    ELSE LET g1 == Character_f(g, player, target_enemy)
         IN IF take_damage_result(g1, target_enemy)
            THEN Player_add_wanted_level(
                    [GameMap_remove_object(g1, target_enemy) EXCEPT
                        !.enemies = DictDelValue(@, target_enemy)],
                    player,
                    IF g1.heap[target_enemy].faction = "Police" THEN 2 ELSE 1)
            ELSE g1

\* key 'w', 'a', 's', 'd'
MoveKeys == {"w", "a", "s", "d"}
KeyDx(key) == IF key = "a" THEN -1 ELSE IF key = "d" THEN 1 ELSE 0
KeyDy(key) == IF key = "w" THEN -1 ELSE IF key = "s" THEN 1 ELSE 0

\* what the player types during one command: yes (the answer to an accept
\* prompt is "yes"), lines (typed at the shop prompt), line (typed at the
\* inventory menu)
Typed(yes, lines, line) == [yes |-> yes, lines |-> lines, line |-> line]
NoTyping == Typed(FALSE, <<>>, ZeroLine)

\* Game.handle_input: the game and the save file it leaves.  player is the
\* local bound on entry: after 'l' it is the replaced Player object, so the
\* closing discover_area does not touch the new world
Game_handle_input(g, f, key, t) ==
    LET player == g.player IN
    CASE key = "e" ->
            [game |-> Player_discover_area(
                         InteractScan(g, player, g.heap[player].x, g.heap[player].y,
                                      1, t.yes, t.lines), player),
             file |-> f]
      [] key = "x" -> [game |-> Player_discover_area(ExitVehicle(g, player), player),
                       file |-> f]
      [] key = "u" ->
            [game |-> IF g.heap[player].inventory = <<>> THEN g
                      ELSE IF t.line = ZeroLine THEN g
                      ELSE Player_discover_area(UseItem(g, player, t.line), player),
             file |-> f]
      [] key = "f" -> [game |-> Player_discover_area(Attack(g, player), player), file |-> f]
      [] key = "v" -> [game |-> Player_discover_area(g, player), file |-> Game_save_game(g)]
      [] key = "l" -> [game |-> Game_load_game(g, f), file |-> f]
      [] key = "q" -> [game |-> [g EXCEPT !.running = FALSE], file |-> f]
      [] key \in MoveKeys ->
            [game |-> Player_discover_area(
                         Player_move(g, player, KeyDx(key), KeyDy(key)), player),
             file |-> f]
      [] OTHER -> [game |-> Player_discover_area(g, player), file |-> f]

\* ------------------------------------------------------------ game_loop
\* a Python list of length n accepts the index i
ListIndexOk(i, n) == -n <= i /\ i < n

\* GameMap.render raises IndexError: the two unguarded grid writes that place
\* the player's vehicle and the player
RenderRaises(g) ==
    LET p == ThePlayer(g) IN
    \/ /\ p.current_vehicle # None
       /\ ~(/\ ListIndexOk(g.heap[p.current_vehicle].y, MAP_HEIGHT)
            /\ ListIndexOk(g.heap[p.current_vehicle].x, MAP_WIDTH))
    \/ ~(ListIndexOk(p.y, MAP_HEIGHT) /\ ListIndexOk(p.x, MAP_WIDTH))

\* the statements of game_loop before the while loop
GameLoopEntry(g) ==
    LET g1 == Player_discover_area(g, g.player)
    IN IF ThePlayer(g1).wanted_level > 0
       THEN Game_spawn_police(g1, [i \in 1..ThePlayer(g1).wanted_level |-> <<0, 0>>])
       ELSE g1

\* the three periodic effects of one loop iteration, in program order
PeriodicEffects(g, offsets) ==
    LET g1 == IF g.game_time % NeedsPeriod = 0
              THEN Player_update_needs(g, g.player) ELSE g
        g2 == IF ThePlayer(g1).wanted_level > 0 /\ g1.game_time % WantedDecayPeriod = 0
              THEN Player_reduce_wanted_level(g1, g1.player, 1) ELSE g1
    IN IF ThePlayer(g2).wanted_level > 0 /\ g2.game_time % PoliceSpawnPeriod = 0
       THEN Game_spawn_police(g2, offsets)
       ELSE g2

\* the number of randint pairs the spawn of this iteration draws
SpawnDraws(g) ==
    LET g1 == IF g.game_time % NeedsPeriod = 0
              THEN Player_update_needs(g, g.player) ELSE g
        g2 == IF ThePlayer(g1).wanted_level > 0 /\ g1.game_time % WantedDecayPeriod = 0
              THEN Player_reduce_wanted_level(g1, g1.player, 1) ELSE g1
    IN IF g2.game_time % PoliceSpawnPeriod = 0 THEN ThePlayer(g2).wanted_level ELSE 0

\* ------------------------------------------------------------ input sources
\* one scripted loop iteration: the command key with what is typed, the order
\* number k of every shuffle of the iteration (k < 0: game_time % 2) and the
\* offsets the spawn draws (those not listed are (0, 0), the player's own cell)
Step(key, t, k, offsets) == [key |-> key, t |-> t, k |-> k, offsets |-> offsets]

Key(key) == Step(key, NoTyping, -1, <<>>)

Times(step, n) == [i \in 1..n |-> step]

\* CJ walks up to the Cluckin' Bell counter
ToCluckinBell == Times(Key("w"), 9)

\* ... and buys the shop's entry i
Buy(i) == <<Step("e", Typed(FALSE, <<Line(TRUE, i)>>, ZeroLine), -1, <<>>)>>

\* CJ walks to the cell below and right of the Green Sabre and gets in
IntoGreenSabre == Times(Key("a"), 9) \o <<Key("w"), Key("e")>>

\* ... and drives it to the cell left of Cluckin' Bell
DriveToCluckinBell == IntoGreenSabre \o Times(Key("d"), 9) \o Times(Key("w"), 8)

\* CJ walks to the Police Car, gets in and drives it to the east edge
DriveToEastEdge ==
    Times(Key("d"), 34) \o Times(Key("s"), 2) \o <<Key("e")>> \o Times(Key("d"), 4)

\* CJ walks next to Sweet with empty hands
ToSweet == <<Key("s")>> \o Times(Key("a"), 36) \o Times(Key("w"), 9)

\* CJ walks next to Ryder with no mission completed
ToRyder == <<Key("s")>> \o Times(Key("a"), 29) \o Times(Key("w"), 2)

\* CJ picks the Pistol up and walks next to Sweet
PistolToSweet ==
    <<Key("s")>> \o Times(Key("a"), 37) \o Times(Key("w"), 11) \o <<Key("e")>>
    \o Times(Key("s"), 2) \o <<Key("d")>>

\* ... and talks to Sweet, which completes Sweet's Mission
SweetDone == PistolToSweet \o <<Key("e")>>

\* ... and walks next to Ryder
SweetDoneToRyder == SweetDone \o Times(Key("s"), 5) \o Times(Key("d"), 5)

\* CJ walks up to the Ballaz gangster and hits him seven times
FightGangster ==
    <<Key("s")>> \o Times(Key("a"), 24) \o <<Key("w")>> \o Times(Key("f"), 7)

\* CJ stands still, typing no command, until hunger and thirst have run out
Starve == Times(Key("z"), NeedsMax * NeedsPeriod + 1)

\* starving on: health is chipped away every NeedsPeriod ticks until the
\* periodic effects of the last tick played take it to 0
StarveToDeath ==
    Starve \o Times(Key("z"), (Player_init(0, 0).max_health \div StarveDamage - 2) * NeedsPeriod - 1)

\* starving at a distance, then to gangster1 with health 6: his blow of the
\* tick of arrival leaves 1, the hunger of the next tick 0, and he strikes again
StarveBesideGangster ==
    Times(Key("z"), 1434) \o <<Key("s")>> \o Times(Key("a"), 24) \o <<Key("w")>>

\* gangster1 defeated, an officer spawned on tick 40 (key police_2), gangster2
\* defeated: the spawn of tick 60 is due, with one enemy fewer in the collection
SpawnAfterDefeats ==
    FightGangster \o <<Key("f")>> \o Times(Key("d"), 6)
    \o <<Step("d", NoTyping, -1, << <<-5, 5>> >>), Key("d")>> \o Times(Key("w"), 3)
    \o Times(Key("f"), 8) \o Times(Key("z"), 7)

\* the player idles while the shuffles send the enemies six steps east and five
\* steps south: gangster1 walks from (15,10) to (21,15)
GangsterToBigSmoke ==
    Times(Step("z", NoTyping, 2, <<>>), 6) \o Times(Step("z", NoTyping, 0, <<>>), 5)

\* all three missions: the Pistol to Sweet, the Shotgun to Ryder and the Cash
\* Bundle to Big Smoke, each completed by the talk that follows the pick-up
AllMissions ==
    SweetDone
    \o Times(Key("s"), 9) \o Times(Key("d"), 70) \o Times(Key("s"), 7) \o <<Key("e")>>
    \o Times(Key("a"), 63) \o Times(Key("w"), 9) \o <<Key("e")>>
    \o Times(Key("w"), 4) \o Times(Key("d"), 8) \o <<Key("e")>>
    \o Times(Key("s"), 7) \o <<Key("e")>>

\* beside the Police Officer, who is left with the health one blow takes
FightOfficer == Times(Key("d"), 37) \o Times(Key("w"), 9) \o Times(Key("f"), 11)

\* on foot to the cell above Big Smoke's second tile
WalkToBigSmoke == Times(Key("s"), 2) \o Times(Key("a"), 19)

\* in the Green Sabre to the cell right of Big Smoke's second tile
DriveToBigSmoke == IntoGreenSabre \o Times(Key("s"), 5) \o Times(Key("a"), 8)

\* the Green Sabre parked below Ryder, the player on foot between the two
ParkByRyder ==
    IntoGreenSabre \o Times(Key("s"), 3) \o Times(Key("a"), 20) \o Times(Key("w"), 2)
    \o <<Key("x")>>

\* a 2.0 document without the keys a later schema version introduced
Without(d, keys) == [k \in (DOMAIN d) \ keys |-> d[k]]

NewerPlayerKeys ==
    {"stamina", "max_stamina", "wanted_level", "hunger", "thirst",
     "driving_skill", "weapon_skill", "current_vehicle"}

LegacyDocument(doc) ==
    [Without(doc, {"version", "game_time", "vehicles"}) EXCEPT
        !.player = Without(@, NewerPlayerKeys),
        !.enemies = [i \in 1..Len(@) |-> <<@[i][1], Without(@[i][2], {"faction"})>>]]

\* the save file of an older edition: CJ one step west of the centre
FileLegacy == FileOf(LegacyDocument(SaveDocument(Player_move(Game_init, "CJ", -1, 0))))

\* the runs: the save file found at the start and the script played first
Runs ==
    <<[file |-> FileMissing, script |-> <<>>],
      [file |-> FileCorrupt, script |-> <<>>],
      [file |-> FileLegacy, script |-> <<>>],
      [file |-> FileMissing, script |-> ToCluckinBell],
      [file |-> FileMissing, script |-> ToCluckinBell \o Buy(1)],
      [file |-> FileMissing, script |-> IntoGreenSabre],
      [file |-> FileMissing, script |-> DriveToCluckinBell \o <<Key("v")>>],
      [file |-> FileMissing, script |-> DriveToEastEdge],
      [file |-> FileMissing, script |-> ToSweet],
      [file |-> FileMissing, script |-> ToRyder],
      [file |-> FileMissing, script |-> PistolToSweet],
      [file |-> FileMissing, script |-> SweetDone],
      [file |-> FileMissing, script |-> SweetDoneToRyder],
      [file |-> FileMissing, script |-> FightGangster],
      [file |-> FileMissing, script |-> StarveToDeath],
      [file |-> FileMissing, script |-> AllMissions],
      [file |-> FileMissing, script |-> FightOfficer],
      [file |-> FileMissing, script |-> WalkToBigSmoke],
      [file |-> FileMissing, script |-> DriveToBigSmoke],
      [file |-> FileMissing, script |-> ParkByRyder],
      [file |-> FileMissing, script |-> StarveBesideGangster],
      [file |-> FileMissing, script |-> SpawnAfterDefeats],
      [file |-> FileMissing, script |-> GangsterToBigSmoke],
      \* SpawnAfterDefeats, a second spawn at tick 60 and idling past tick 100
      [file |-> FileMissing,
       script |-> SpawnAfterDefeats \o <<Step("z", NoTyping, -1, << <<1, 0>> >>)>>
                  \o Times(Key("z"), 39)],
      \* CJ picks the Shotgun up, accepts Sweet's Mission, talks to Ryder,
      \* picks the Pistol up and talks to Sweet
      [file |-> FileMissing,
       script |-> Times(Key("s"), 9) \o Times(Key("d"), 34) \o <<Key("e")>>
                  \o Times(Key("a"), 70) \o Times(Key("w"), 17)
                  \o <<Step("e", Typed(TRUE, <<>>, ZeroLine), -1, <<>>)>>
                  \o Times(Key("s"), 7) \o Times(Key("d"), 7) \o <<Key("e")>>
                  \o Times(Key("a"), 7) \o Times(Key("w"), 7)
                  \o <<Key("a"), Key("w"), Key("w"), Key("e"),
                       Key("s"), Key("s"), Key("d"), Key("e")>>],
      \* CJ walks up to Ammu-Nation, asks for the Uzi four times and for the
      \* Knife once
      [file |-> FileMissing,
       script |-> Times(Key("d"), 29) \o Times(Key("w"), 6)
                  \o Buy(2) \o Buy(2) \o Buy(2) \o Buy(2) \o Buy(1)]>>

\* no script (left) to play
NoScript == [run |-> 0, at |-> 0]

Scripted == script # NoScript

\* the scripted iteration to play next
NextStep == Runs[script.run].script[script.at]

\* the command key may be read now
Reads(key) == IF Scripted THEN NextStep.key = key ELSE ticks < MaxTicks

\* what may be typed during the command: the script's typing, or any of free
TypedFrom(free) == IF Scripted THEN {NextStep.t} ELSE free

\* the order numbers the shuffles of this iteration may have
ShuffleNumbers ==
    IF Scripted
    THEN {IF NextStep.k < 0 THEN game.game_time % 2 ELSE NextStep.k}
    ELSE 0..(NumShuffles - 1)

\* the offset sequences a spawn of n officers may draw
SpawnOffsets(n) ==
    IF Scripted
    THEN {[i \in 1..n |-> IF i <= Len(NextStep.offsets)
                          THEN NextStep.offsets[i] ELSE <<0, 0>>]}
    ELSE LET r == Min2(SpawnRange, SpawnSpread)
         IN [1..n -> (-r..r) \X (-r..r)]

\* the lines a numbered prompt over n entries can be given
Lines(n) == {Line(TRUE, v) : v \in 1..(n + 1)} \cup {Line(FALSE, 0)}

\* the sequences of at most MaxShopInputs lines typed in a shop of n entries
ShopLines(n) == UNION {[1..m -> Lines(n)] : m \in 0..MaxShopInputs}

\* the longest catalog of a shop
MaxCatalog == Len(Game_init.heap["ammu_nation"].inventory)

\* ------------------------------------------------------------ the state machine
\* Game() has been constructed; game_loop is about to be called
Init ==
    /\ game = Game_init
    /\ \E r \in 1..Len(Runs) :
          /\ file = Runs[r].file
          /\ script = IF Runs[r].script = <<>> THEN NoScript ELSE [run |-> r, at |-> 1]
    /\ pc = "start"
    /\ active_enemies = <<>>
    /\ ticks = 0
    /\ last = [key |-> "none", k |-> 0, t |-> NoTyping]

\* game_loop up to the while loop
EnterLoop ==
    /\ pc = "start"
    /\ game' = GameLoopEntry(game)
    /\ pc' = "top"
    /\ UNCHANGED <<file, active_enemies, script, ticks, last>>

\* while self.running: render, display_status, the defeat test
Render ==
    /\ pc = "top"
    /\ game.running
    /\ pc' = IF RenderRaises(game) THEN "raised"
             ELSE IF ThePlayer(game).health <= 0 THEN "exit"
             ELSE "effects"
    /\ game' = IF ~RenderRaises(game) /\ ThePlayer(game).health <= 0
               THEN [game EXCEPT !.running = FALSE] ELSE game
    /\ UNCHANGED <<file, active_enemies, script, ticks, last>>

\* needs decay, wanted-level decay and police spawn
Effects ==
    /\ pc = "effects"
    /\ \E offsets \in SpawnOffsets(SpawnDraws(game)) :
          game' = PeriodicEffects(game, offsets)
    /\ pc' = "input"
    /\ UNCHANGED <<file, active_enemies, script, ticks, last>>

\* input() and handle_input, then the snapshot the enemy loop iterates over
Command(key, t) ==
    /\ pc = "input"
    /\ Reads(key)
    /\ LET r == Game_handle_input(game, file, key, t)
       IN /\ game' = r.game
          /\ file' = r.file
          /\ active_enemies' = DictValues(r.game.enemies)
    /\ pc' = "enemies"
    /\ ticks' = IF Scripted THEN ticks ELSE ticks + 1
    /\ \E k \in ShuffleNumbers : last' = [key |-> key, k |-> k, t |-> t]
    /\ UNCHANGED script

CmdMove == \E key \in MoveKeys : Command(key, NoTyping)

CmdInteract ==
    \E t \in TypedFrom({Typed(yes, lines, ZeroLine) :
                           yes \in BOOLEAN, lines \in ShopLines(MaxCatalog)}) :
        Command("e", t)

CmdExitVehicle == Command("x", NoTyping)

CmdUseItem ==
    \E t \in TypedFrom({Typed(FALSE, <<>>, c) :
                           c \in Lines(Len(ThePlayer(game).inventory)) \cup {ZeroLine}}) :
        Command("u", t)

CmdAttack == Command("f", NoTyping)

CmdSave == Command("v", NoTyping)

CmdLoad == Command("l", NoTyping)

CmdQuit == Command("q", NoTyping)

\* any token that is no command, here "z"
CmdInvalid == Command("z", NoTyping)

\* one enemy of the snapshot takes its turn
EnemyTurn ==
    /\ pc = "enemies"
    /\ active_enemies # <<>>
    /\ game' = IF game.heap[Head(active_enemies)].health > 0
               THEN Enemy_take_turn(game, Head(active_enemies), game.player,
                                    ShuffleOrder(last.k))
               ELSE game
    /\ active_enemies' = Tail(active_enemies)
    /\ UNCHANGED <<file, pc, script, ticks, last>>

\* self.game_time += 1 and the loop test
AdvanceTick ==
    /\ pc = "enemies"
    /\ active_enemies = <<>>
    /\ game' = [game EXCEPT !.game_time = @ + 1]
    /\ pc' = IF game.running THEN "top" ELSE "exit"
    /\ script' = IF Scripted /\ script.at < Len(Runs[script.run].script)
                 THEN [script EXCEPT !.at = @ + 1]
                 ELSE NoScript
    /\ UNCHANGED <<file, active_enemies, ticks, last>>

Next ==
    \/ EnterLoop
    \/ Render
    \/ Effects
    \/ CmdMove
    \/ CmdInteract
    \/ CmdExitVehicle
    \/ CmdUseItem
    \/ CmdAttack
    \/ CmdSave
    \/ CmdLoad
    \/ CmdQuit
    \/ CmdInvalid
    \/ EnemyTurn
    \/ AdvanceTick

Spec == Init /\ [][Next]_vars

\* ------------------------------------------------------------ properties
\* the vehicles of the world
Vehicles == Range(DictValues(game.vehicles))

\* C1: for every vehicle v, v.occupant is the player iff the player's
\* current_vehicle is v, no vehicle has another occupant, and so at most one
\* vehicle is occupied
C1_OccupantLinkage ==
    /\ \A v \in Vehicles :
          /\ game.heap[v].occupant \in {None, game.player}
          /\ game.heap[v].occupant = game.player
                <=> ThePlayer(game).current_vehicle = v
    /\ Cardinality({v \in Vehicles : game.heap[v].occupant # None}) <= 1

\* CJ has just got into the Green Sabre
C1_Entered ==
    /\ last.key = "e"
    /\ ThePlayer(game).current_vehicle = "green_sabre"
    /\ game.heap["green_sabre"].occupant = game.player

\* C2: a step that makes mission m the player's active mission finds every
\* prerequisite of m already in missions_completed; with a prerequisite
\* absent the active mission does not become m
C2_AcceptanceNeedsPrerequisites ==
    [][\A i \in 1..Len(MissionNames) :
          LET m == MissionNames[i] IN
          (ThePlayer(game').current_mission = m /\ ThePlayer(game).current_mission # m)
             => Range(Missions[m].prerequisite_missions)
                   \subseteq Range(ThePlayer(game).missions_completed)]_vars

\* CJ has accepted Ryder's Mission after completing Sweet's
C2_AcceptedRyder ==
    /\ last.key = "e"
    /\ ThePlayer(game).current_mission = "Ryder's Mission"
    /\ ThePlayer(game).missions_completed = <<"Sweet's Mission">>

NoDuplicates(s) == \A i, j \in 1..Len(s) : s[i] = s[j] => i = j

\* C3: missions_completed never holds a name twice; it changes only by a load
\* (which empties it) or by appending one name not yet in it, together with
\* that mission's money reward; and the player's money grows in no other step,
\* so talking to the NPC again after completion pays nothing
C3_CompletedOnce ==
    [][LET p == ThePlayer(game)
           q == ThePlayer(game')
       IN /\ NoDuplicates(q.missions_completed)
          /\ q.missions_completed # p.missions_completed
                => \/ last'.key = "l" /\ q.missions_completed = <<>>
                   \/ \E i \in 1..Len(MissionNames) :
                         LET m == MissionNames[i] IN
                         /\ m \notin Range(p.missions_completed)
                         /\ q.missions_completed = Append(p.missions_completed, m)
                         /\ q.money = p.money + Missions[m].reward_money
          /\ q.money > p.money
                => \/ q.missions_completed # p.missions_completed
                   \/ pc = "input" /\ last'.key = "l"]_vars

\* CJ has talked to Sweet once more after the talk that completed the mission
C3_TalkedAgain ==
    /\ pc = "enemies"
    /\ last.key = "e"
    /\ game.game_time = Len(SweetDone)
    /\ game.heap["sweet"].mission_completed
    /\ ThePlayer(game).missions_completed = <<"Sweet's Mission">>
    /\ ThePlayer(game).money = Player_init(0, 0).money + Missions["Sweet's Mission"].reward_money

\* what a save and load round trip is to reproduce: the player's position, health
\* and money, the items carried (class, name and class attribute, in order), the
\* completed missions and who sits in which vehicle
PlayerView(g) ==
    LET p == ThePlayer(g) IN
    [x |-> p.x, y |-> p.y, health |-> p.health, money |-> p.money,
     inventory |-> [i \in 1..Len(p.inventory) |->
                      [cls |-> g.heap[p.inventory[i]].cls,
                       name |-> g.heap[p.inventory[i]].name,
                       power |-> g.heap[p.inventory[i]].power]],
     missions_completed |-> p.missions_completed,
     current_vehicle |-> IF p.current_vehicle = None THEN None
                         ELSE g.heap[p.current_vehicle].name,
     occupied |-> {g.heap[v].name : v \in {w \in Range(DictValues(g.vehicles)) :
                                             g.heap[w].occupant # None}}]

\* C4: at every prompt, save_game followed at once by load_game of the file
\* written reproduces the player's position, health, money, inventory,
\* completed missions and the vehicle linkage
C4_SaveLoadRoundTrip ==
    pc = "input" => PlayerView(Game_load_game(game, Game_save_game(game))) = PlayerView(game)

\* a load command whose load_game fails: no file, no JSON, or an exception
\* while the document is rebuilt
FailedLoadStep ==
    /\ pc = "input"
    /\ pc' = "enemies"
    /\ last'.key = "l"
    /\ file.kind = "json" => LoadRaises(file.data)

\* C5: a load that fails leaves exactly the freshly initialized world (player
\* at the centre, default stats, the initial objects, no completed mission,
\* game_time 0) and the loop goes on to the enemy turns
C5_FailedLoadGivesFreshWorld ==
    [][FailedLoadStep => game' = Game_init /\ pc' # "raised"]_vars

\* a load has failed part-way through a document saved away from the centre,
\* and the world is the fresh one
C5_FailedOnSavedDocument ==
    /\ pc = "enemies"
    /\ last.key = "l"
    /\ file.kind = "json"
    /\ LoadRaises(file.data)
    /\ file.data.player.x # ThePlayer(Game_init).x
    /\ game = Game_init

\* C6: loading a document without the newer keys restores the values it holds
\* and gives each missing field its default
C6_LegacyLoadRestores ==
    [][(/\ pc = "input"
        /\ pc' = "enemies"
        /\ last'.key = "l"
        /\ file.kind = "json"
        /\ "version" \notin DOMAIN file.data)
       => LET d == file.data.player
              q == ThePlayer(game')
          IN /\ q.x = d.x /\ q.y = d.y /\ q.health = d.health /\ q.money = d.money
             /\ game'.game_time = 0
             /\ q.stamina = 100 * StaminaScale
             /\ q.wanted_level = 0
             /\ q.hunger = 100 /\ q.thirst = 100
             /\ \A e \in Range(DictValues(game'.enemies)) :
                   game'.heap[e].faction = "Gang"]_vars

\* the cells an object of the map lies on
CellsOf(g, id) ==
    IF IsBigSmoke(g.heap[id])
    THEN {<<g.heap[id].x, g.heap[id].y>>, <<g.heap[id].char2_x, g.heap[id].char2_y>>}
    ELSE {<<g.heap[id].x, g.heap[id].y>>}

\* C7: no two distinct objects of the map share a cell, Big Smoke counted on
\* both his cells, except the player and the vehicle the player is driving
C7_NoSharedCell ==
    \A a, b \in Range(game.objects) :
        (a # b /\ CellsOf(game, a) \cap CellsOf(game, b) # {})
           => {a, b} = {game.player, ThePlayer(game).current_vehicle}

\* C8: every object of the map lies inside the grid
C8_InBounds ==
    \A id \in Range(game.objects) : InBounds(game.heap[id].x, game.heap[id].y)

\* C9: health is within 0..max_health for every character and vehicle; the
\* player's stamina is within 0..max_stamina, hunger and thirst within 0..100
\* and wanted_level within 0..MAX_WANTED_LEVEL
C9_StatsInRange ==
    /\ \A id \in Range(game.objects) :
          LET o == game.heap[id] IN
          (IsPlayer(o) \/ IsNPC(o) \/ IsEnemy(o) \/ IsVehicle(o))
             => 0 <= o.health /\ o.health <= o.max_health
    /\ LET p == ThePlayer(game) IN
       /\ 0 <= p.stamina /\ p.stamina <= p.max_stamina
       /\ 0 <= p.hunger /\ p.hunger <= NeedsMax
       /\ 0 <= p.thirst /\ p.thirst <= NeedsMax
       /\ 0 <= p.wanted_level /\ p.wanted_level <= MAX_WANTED_LEVEL

\* CJ has eaten the burger bought at Cluckin' Bell while nearly full: the
\* hunger value was cut back to its maximum
C9_AteWhenFull ==
    /\ last.key = "u"
    /\ pc = "enemies"
    /\ ThePlayer(game).inventory = <<>>
    /\ ThePlayer(game).money < Player_init(0, 0).money
    /\ ThePlayer(game).hunger = NeedsMax

\* C10: no exception escapes the game loop, and the loop ends only by defeat
\* or quit (game_loop has no victory exit)
C10_LoopEndsOnlyAsSanctioned ==
    /\ pc # "raised"
    /\ pc = "exit" => (ThePlayer(game).health <= 0 \/ last.key = "q")

\* all three missions are in the player's list of completed missions
AllMissionsCompleted ==
    \A m \in Range(MissionNames) : m \in Range(ThePlayer(game).missions_completed)

\* C11: once Sweet's, Ryder's and Big Smoke's missions are all completed the
\* loop ends in victory by itself: no command is read in a world where the
\* three are completed
C11_VictoryEndsLoop ==
    AllMissionsCompleted => pc # "input"

\* C12: a player whose health was taken to 0 during a tick (an enemy's blow, or
\* the damage of hunger and thirst) never acts again: the loop ends in defeat
\* before a command is read, so no command is read at health 0
C12_NoCommandAtZeroHealth ==
    pc = "input" => ThePlayer(game).health > 0

\* C13: the player's current weapon is none or a Weapon held in the inventory;
\* equip_weapon equips exactly a Weapon that is in the inventory and otherwise
\* changes nothing; remove_item of the equipped item leaves no weapon equipped
C13_WeaponIsHeld ==
    LET p == ThePlayer(game)
        held(g) == g.heap[g.player].current_weapon = None
                   \/ (/\ g.heap[g.player].current_weapon \in Range(g.heap[g.player].inventory)
                       /\ g.heap[g.heap[g.player].current_weapon].cls = "Weapon")
    IN /\ held(game)
       /\ \A it \in DOMAIN game.heap :
            LET g2 == Character_equip_weapon(game, game.player, it)
            IN IF it \in Range(p.inventory) /\ game.heap[it].cls = "Weapon"
               THEN g2 = [game EXCEPT !.heap[game.player].current_weapon = it]
               ELSE g2 = game
       /\ \A it \in Range(p.inventory) :
            LET g3 == Character_remove_item(game, game.player, it)
            IN /\ it = p.current_weapon => g3.heap[game.player].current_weapon = None
               /\ held(g3)

\* the Pistol picked up at (2,2) has just been equipped with 'u'
C13_EquippedPistol ==
    /\ last.key = "u"
    /\ pc = "enemies"
    /\ ThePlayer(game).current_weapon = "pistol"
    /\ "pistol" \in Range(ThePlayer(game).inventory)

\* C14: an attack that defeats the adjacent enemy removes it from the map's
\* object list and from the enemy collection and raises the wanted level to
\* min(MAX_WANTED_LEVEL, old + 2) for a Police enemy and min(MAX_WANTED_LEVEL,
\* old + 1) otherwise; an attack that does not defeat removes nothing and
\* leaves the wanted level as it was
C14_DefeatRemovesEnemy ==
    [][pc = "input" /\ last'.key = "f" =>
        LET target == AttackTarget(game, game.player)
            old == ThePlayer(game).wanted_level
            new == game'.heap[game'.player].wanted_level
        IN IF target # None /\ game'.heap[target].health <= 0
           THEN /\ target \notin Range(game'.objects)
                /\ target \notin Range(DictValues(game'.enemies))
                /\ new = Min2(MAX_WANTED_LEVEL,
                              old + (IF game.heap[target].faction = "Police" THEN 2 ELSE 1))
           ELSE /\ game'.objects = game.objects
                /\ game'.enemies = game.enemies
                /\ new = old]_vars

\* the twelfth blow has just defeated the Police Officer
C14_DefeatedOfficer ==
    /\ last.key = "f"
    /\ pc = "enemies"
    /\ game.heap["police_officer"].health = 0
    /\ "police_officer" \notin Range(game.objects)
    /\ ThePlayer(game).wanted_level = 2

\* C15: an attack that defeats the adjacent enemy leaves the player with
\* strictly more money than before the attack
C15_DefeatPaysMoney ==
    [][pc = "input" /\ last'.key = "f" =>
        LET target == AttackTarget(game, game.player)
        IN target # None /\ game'.heap[target].health <= 0 =>
               game'.heap[game'.player].money > ThePlayer(game).money]_vars

\* the first map object the scan of 'e' and 'f' meets around the player, or None
FirstScanned(g) ==
    LET p == ThePlayer(g)
        at(i) == GameMap_get_object_at(g, p.x + ScanOrder[i][1], p.y + ScanOrder[i][2])
        hits == {i \in 1..Len(ScanOrder) : at(i) # None}
    IN IF hits = {} THEN None ELSE at(CHOOSE i \in hits : \A j \in hits : i <= j)

\* the player holds a Weapon named Pistol
HoldsPistol(g) ==
    \E i \in 1..Len(ThePlayer(g).inventory) :
        /\ g.heap[ThePlayer(g).inventory[i]].cls = "Weapon"
        /\ g.heap[ThePlayer(g).inventory[i]].name = "Pistol"

\* C16: a player who holds the Pistol and talks to Sweet without having
\* accepted the mission completes it in that talk: Sweet's Mission is added
\* once to the completed missions, money grows by exactly 100, no mission is
\* active and Sweet is flagged as completed
C16_SweetCompletesInOneTalk ==
    [][/\ pc = "input" /\ last'.key = "e"
       /\ FirstScanned(game) = "sweet"
       /\ HoldsPistol(game)
       /\ ThePlayer(game).current_mission = None
       /\ ThePlayer(game).missions_completed = <<>>
       /\ ~game.heap["sweet"].mission_completed
       => /\ game'.heap[game'.player].missions_completed = <<"Sweet's Mission">>
          /\ game'.heap[game'.player].money = ThePlayer(game).money + 100
          /\ game'.heap[game'.player].current_mission = None
          /\ game'.heap["sweet"].mission_completed]_vars

\* the talk to Sweet that follows the pick-up of the Pistol has just been made
C16_TalkedWithPistol ==
    /\ last.key = "e"
    /\ pc = "enemies"
    /\ game.game_time = Len(PistolToSweet)
    /\ HoldsPistol(game)
    /\ ThePlayer(game).missions_completed = <<"Sweet's Mission">>
    /\ ThePlayer(game).money = Player_init(0, 0).money + 100

\* what a move command moves: the vehicle the player is in, else the player
Mover(g) ==
    IF ThePlayer(g).current_vehicle # None THEN ThePlayer(g).current_vehicle ELSE g.player

\* the cell a move command with the key targets: one step from the mover
TargetCell(g, key) ==
    <<g.heap[Mover(g)].x + KeyDx(key), g.heap[Mover(g)].y + KeyDy(key)>>

\* the two cells of a Big Smoke on the map: (x, y) and (x + 1, y)
BigSmokeCells(g) ==
    UNION {{<<g.heap[id].x, g.heap[id].y>>, <<g.heap[id].x + 1, g.heap[id].y>>} :
           id \in {o \in Range(g.objects) : IsBigSmoke(g.heap[o])}}

\* C17: a move command whose target is Big Smoke's primary cell (x, y) or his
\* second cell (x + 1, y) is rejected, on foot and in a vehicle: the player
\* and the vehicle driven stay where they were
C17_BigSmokeBlocksBothCells ==
    [][/\ pc = "input" /\ last'.key \in MoveKeys
       /\ TargetCell(game, last'.key) \in BigSmokeCells(game)
       => /\ game'.player = game.player
          /\ Mover(game') = Mover(game)
          /\ game'.heap[game.player].x = ThePlayer(game).x
          /\ game'.heap[game.player].y = ThePlayer(game).y
          /\ game'.heap[Mover(game)].x = game.heap[Mover(game)].x
          /\ game'.heap[Mover(game)].y = game.heap[Mover(game)].y]_vars

\* the Green Sabre, right of Big Smoke's second cell, was just driven at it
C17_DroveAtSecondCell ==
    /\ last.key = "a"
    /\ pc = "enemies"
    /\ game.game_time = Len(DriveToBigSmoke)
    /\ Mover(game) = "green_sabre"
    /\ <<game.heap["green_sabre"].x - 1, game.heap["green_sabre"].y>>
           = <<game.heap["big_smoke"].x + 1, game.heap["big_smoke"].y>>

\* the target of a move command lies off the grid or on a map object other
\* than the player and the vehicle driven
TargetTaken(g, key) ==
    \/ ~InBounds(TargetCell(g, key)[1], TargetCell(g, key)[2])
    \/ \E o \in Range(g.objects) \ {g.player, Mover(g)} : TargetCell(g, key) \in CellsOf(g, o)

\* the world without the record of the cells the player has seen, which the
\* command handler extends after every command
Undiscovered(g) == [g EXCEPT !.heap[g.player].discovered_map = {}]

\* C18: a move command, on foot or driving, whose target is off the grid or
\* taken by a map object is rejected and the move changes nothing; a move to
\* a free cell of the grid puts the player, and the vehicle driven, on it
C18_RejectedMoveChangesNothing ==
    [][pc = "input" /\ last'.key \in MoveKeys =>
        IF TargetTaken(game, last'.key)
        THEN Undiscovered(game') = Undiscovered(game)
        ELSE /\ <<game'.heap[game.player].x, game'.heap[game.player].y>>
                    = TargetCell(game, last'.key)
             /\ <<game'.heap[Mover(game)].x, game'.heap[Mover(game)].y>>
                    = TargetCell(game, last'.key)]_vars

\* the player, below Cluckin' Bell, has just walked at the shop
C18_WalkedAtShop ==
    /\ last.key = "w"
    /\ pc = "enemies"
    /\ game.game_time = Len(ToCluckinBell)
    /\ <<ThePlayer(game).x, ThePlayer(game).y - 1>> \in CellsOf(game, "cluckin_bell")

\* the object is an NPC whose mission has a prerequisite the player has not completed
LacksPrerequisite(g, id) ==
    /\ id # None
    /\ IsNPC(g.heap[id])
    /\ g.heap[id].mission_offered # None
    /\ \E m \in Range(Missions[g.heap[id].mission_offered].prerequisite_missions) :
           m \notin Range(ThePlayer(g).missions_completed)

\* C19: an interact command that addresses an NPC whose mission has a missing
\* prerequisite only prints the blocking message: the player's money,
\* inventory, active mission, completed missions and vehicle, the NPC's
\* completion flag and the map's object list stay as they were
C19_BlockedTalkChangesNothing ==
    [][/\ pc = "input" /\ last'.key = "e"
       /\ LacksPrerequisite(game, FirstScanned(game))
       => /\ game'.heap[game.player].money = ThePlayer(game).money
          /\ game'.heap[game.player].inventory = ThePlayer(game).inventory
          /\ game'.heap[game.player].current_mission = ThePlayer(game).current_mission
          /\ game'.heap[game.player].missions_completed = ThePlayer(game).missions_completed
          /\ game'.heap[game.player].current_vehicle = ThePlayer(game).current_vehicle
          /\ game'.heap[FirstScanned(game)].mission_completed
                 = game.heap[FirstScanned(game)].mission_completed
          /\ game'.objects = game.objects]_vars

\* C20: a token that is none of w, a, s, d, e, x, u, f, v, l, q only prints the
\* help message: from the reading of the token to the end of the iteration
\* that handles it nothing of the world changes, neither the player, the
\* entities and the missions nor game_time
C20_InvalidTokenChangesNothing ==
    [][(pc = "input" \/ pc = "enemies") /\ last'.key = "z" => game' = game]_vars

CharacterClasses == {"Player", "NPC", "BigSmoke", "Enemy"}

\* the containers that hold the item: its places in the map's object list, the
\* inventory slots of the characters and the catalog entries of the shops
Holders(g, it) ==
    {<<"map", i>> : i \in {j \in 1..Len(g.objects) : g.objects[j] = it}}
    \cup UNION {{<<c, i>> : i \in {j \in 1..Len(g.heap[c].inventory) :
                                      g.heap[c].inventory[j] = it}} :
                c \in {d \in DOMAIN g.heap : g.heap[d].cls \in CharacterClasses}}
    \cup UNION {{<<c, i>> : i \in {j \in 1..Len(g.heap[c].inventory) :
                                      g.heap[c].inventory[j][1] = it}} :
                c \in {d \in DOMAIN g.heap : IsShop(g.heap[d])}}

\* C21: every Item object is held by at most one container: one map cell, one
\* slot of one character's inventory or one entry of one shop's catalog
C21_ItemHeldOnce ==
    \A it \in {d \in DOMAIN game.heap : IsItem(game.heap[d])} :
        Cardinality(Holders(game, it)) <= 1

\* the characters of the world
Characters(g) == {d \in DOMAIN g.heap : g.heap[d].cls \in CharacterClasses}

\* the amounts take_damage is called with: the damage of hunger and thirst, of
\* bare hands and of the weapons of the world, and the least amounts
DamageAmounts(g) ==
    {0, 1, StarveDamage, FistDamage}
    \cup {g.heap[w].power : w \in {d \in DOMAIN g.heap : g.heap[d].cls = "Weapon"}}

\* C22: for every character and every amount a >= 0, take_damage(a) leaves
\* health = max(0, old health - a), and 0 <= health <= max_health
C22_TakeDamageClamps ==
    \A id \in Characters(game) : \A a \in DamageAmounts(game) :
        LET new == Character_take_damage(game, id, a).heap[id].health
        IN /\ new = Max2(0, game.heap[id].health - a)
           /\ 0 <= new /\ new <= game.heap[id].max_health

\* gangster1 has just struck the player, who is left with less than full health
C22_PlayerWasStruck ==
    /\ pc = "enemies"
    /\ game.heap["gangster1"].health > 0
    /\ Abs(game.heap["gangster1"].x - ThePlayer(game).x) <= 1
    /\ Abs(game.heap["gangster1"].y - ThePlayer(game).y) <= 1
    /\ ThePlayer(game).health = ThePlayer(game).max_health - FistDamage

\* the enemy's turn is a blow at the player: it is alive, not a Police enemy in
\* pursuit, and the player is adjacent
Strikes(g, e) ==
    /\ g.heap[e].health > 0
    /\ ~(g.heap[e].faction = "Police" /\ ThePlayer(g).wanted_level > 0)
    /\ Abs(g.heap[e].x - ThePlayer(g).x) <= 1
    /\ Abs(g.heap[e].y - ThePlayer(g).y) <= 1

\* C23: take_damage returns true exactly when the call took the health from a
\* positive value to 0; called on a health that is already 0 it returns false
\* (stated of the calls the enemies' blows make on the player)
C23_DefeatIsAnEdge ==
    [][pc = "enemies" /\ active_enemies # <<>> /\ Strikes(game, Head(active_enemies))
       => (take_damage_result(game', game.player)
             <=> (ThePlayer(game).health > 0 /\ game'.heap[game.player].health = 0))]_vars

\* C24: discovery is monotone: a cell of the player's discovery grid that is
\* marked discovered stays discovered after every command and every tick
C24_DiscoveryIsMonotone ==
    [][ThePlayer(game).discovered_map \subseteq game'.heap[game'.player].discovered_map]_vars

\* the values a dict holds under the key
DictAt(d, key) == {d[i][2] : i \in {j \in 1..Len(d) : d[j][1] = key}}

\* C25: the load of a file save_game wrote re-links the cross-references: an
\* NPC saved with a mission offers the mission of that name, the player's
\* current mission is the one of the saved name, and a vehicle saved with the
\* player as occupant has the rebuilt player as occupant, whose
\* current_vehicle is that vehicle
C25_LoadRelinks ==
    [][/\ pc = "input" /\ last'.key = "l"
       /\ file.kind = "json"
       /\ Get(file.data, "version", 1) = SAVE_FILE_VERSION
       => /\ \A i \in 1..Len(file.data.npcs) :
                file.data.npcs[i][2].mission_offered # None =>
                    \E n \in DictAt(game'.npcs, file.data.npcs[i][1]) :
                        game'.heap[n].mission_offered = file.data.npcs[i][2].mission_offered
          /\ game'.heap[game'.player].current_mission = file.data.player.current_mission
          /\ \A i \in 1..Len(file.data.vehicles) :
                file.data.vehicles[i][2].occupant = file.data.player.name =>
                    \E v \in DictAt(game'.vehicles, file.data.vehicles[i][1]) :
                        /\ game'.heap[v].occupant = game'.player
                        /\ game'.heap[game'.player].current_vehicle = v]_vars

\* the enemies in the map's object list
EnemiesOnMap(g) == {o \in Range(g.objects) : IsEnemy(g.heap[o])}

\* C26: the enemies on the map are those of the enemy collection, whose
\* values the enemy pass gives one turn each: an officer spawned stays in the
\* collection for as long as it is on the map
C26_EnemiesOnMapAreRegistered ==
    EnemiesOnMap(game) = Range(DictValues(game.enemies))

\* the map objects the step has added
Spawned == Range(game'.objects) \ Range(game.objects)

C29_NoEnemyOnBigSmoke ==
    \A e \in EnemiesOnMap(game) :
        <<game.heap[e].x, game.heap[e].y>> \notin BigSmokeCells(game)

\* the cell is on the grid and no map object other than e covers it
CellIsFree(g, e, x, y) ==
    /\ InBounds(x, y)
    /\ \A o \in Range(g.objects) \ {e} : <<x, y>> \notin CellsOf(g, o)

\* the step has moved e by (dx, dy)
MovedBy(e, dx, dy) ==
    /\ game'.heap[e].x = game.heap[e].x + dx
    /\ game'.heap[e].y = game.heap[e].y + dy

\* e has taken one orthogonal step into a free cell of the grid, or stayed put
RandomStepOrStay(e) ==
    \/ MovedBy(e, 0, 0)
    \/ \E i \in 1..Len(possible_moves) :
          /\ MovedBy(e, possible_moves[i][1], possible_moves[i][2])
          /\ CellIsFree(game, e, game.heap[e].x + possible_moves[i][1],
                                 game.heap[e].y + possible_moves[i][2])

\* C28: in its turn a Police enemy, while the player is wanted, only moves: one
\* step by the per-axis sign toward the player, or a random orthogonal step
\* when that cell is blocked or off the grid, and never attacks; every other
\* enemy, and a Police enemy while the player is not wanted, attacks the
\* player exactly when Chebyshev-adjacent and otherwise takes one random
\* orthogonal step into a free cell of the grid or stays put
C28_EnemyTurn ==
    [][pc = "enemies" /\ active_enemies # <<>> /\ game.heap[Head(active_enemies)].health > 0 =>
        LET e == Head(active_enemies)
            en == game.heap[e]
            p == ThePlayer(game)
            tx == en.x + Sign(p.x, en.x)
            ty == en.y + Sign(p.y, en.y)
            unhurt == game'.heap[game.player].health = p.health
        IN IF en.faction = "Police" /\ p.wanted_level > 0
           THEN /\ unhurt
                /\ IF CellIsFree(game, e, tx, ty)
                   THEN MovedBy(e, tx - en.x, ty - en.y)
                   ELSE RandomStepOrStay(e)
           ELSE IF Abs(en.x - p.x) <= 1 /\ Abs(en.y - p.y) <= 1
           THEN /\ MovedBy(e, 0, 0)
                /\ game'.heap[game.player].health
                       = Max2(0, p.health - attack_damage(game, e))
           ELSE unhurt /\ RandomStepOrStay(e)]_vars

\* C30: hunger and thirst each fall by 1, not below 0, in the periodic effects
\* of the ticks with game_time mod 10 = 0, tick 0 included, which come before
\* the command of the tick is read, and in no other step; on such a tick the
\* player takes the damage 2, once, exactly when hunger or thirst is 0 after
\* the decrement
C30_NeedsDecayEveryTenTicks ==
    [][LET p == ThePlayer(game)
           q == game'.heap[game'.player]
       IN IF pc = "effects" /\ game.game_time % 10 = 0
          THEN /\ q.hunger = Max2(0, p.hunger - 1)
               /\ q.thirst = Max2(0, p.thirst - 1)
               /\ q.health = IF q.hunger = 0 \/ q.thirst = 0
                             THEN Max2(0, p.health - 2) ELSE p.health
               /\ pc' = "input"
          ELSE /\ q.hunger >= p.hunger
               /\ q.thirst >= p.thirst
               /\ pc = "effects" => q.health = p.health]_vars

\* the hundredth decay has just taken hunger and thirst to 0 and health to 98
C30_StarvingTick ==
    /\ pc = "input"
    /\ game.game_time = (NeedsMax - 1) * NeedsPeriod
    /\ ThePlayer(game).hunger = 0
    /\ ThePlayer(game).thirst = 0
    /\ ThePlayer(game).health = ThePlayer(game).max_health - StarveDamage

Interactable(g, i) ==
    LET p == ThePlayer(g)
        obj == GameMap_get_object_at(g, p.x + ScanOrder[i][1], p.y + ScanOrder[i][2])
    IN /\ obj # None
       /\ \/ IsNPC(g.heap[obj]) \/ IsItem(g.heap[obj]) \/ IsShop(g.heap[obj])
          \/ /\ IsVehicle(g.heap[obj])
             /\ p.current_vehicle = None
             /\ g.heap[obj].occupant = None

\* C32: an interact command resolves at most one interaction, with the first
\* interactable object of the scan of the 8 neighbour cells: no object met
\* later in the scan is touched and the player boards no other vehicle; with no
\* interactable neighbour the command changes nothing
C32_InteractsWithFirstInteractable ==
    [][pc = "input" /\ last'.key = "e"
       => LET p == ThePlayer(game)
              at(i) == GameMap_get_object_at(game, p.x + ScanOrder[i][1],
                                             p.y + ScanOrder[i][2])
              hits == {i \in 1..Len(ScanOrder) : Interactable(game, i)}
              first == CHOOSE i \in hits : \A j \in hits : i <= j
          IN IF hits = {} THEN game' = game
             ELSE /\ \A j \in hits : at(j) # at(first)
                                       => game'.heap[at(j)] = game.heap[at(j)]
                  /\ game'.heap[game.player].current_vehicle
                         \in {p.current_vehicle, at(first)}]_vars

\* C33: a mission is accepted only into an empty active slot, and a mission is
\* completed only while the active slot is empty or holds that same mission
C33_OneMissionAtATime ==
    [][LET p == ThePlayer(game)
           q == game'.heap[game'.player]
       IN /\ q.current_mission \notin {None, p.current_mission}
                => p.current_mission = None
          /\ \A m \in Range(MissionNames) :
                /\ m \in Range(q.missions_completed)
                /\ m \notin Range(p.missions_completed)
                => p.current_mission \in {None, m}]_vars

\* Sweet's Mission was accepted, the Shotgun was shown to Ryder while it was
\* active, and it was then completed out of the active slot
C33_CompletedTheAcceptedMission ==
    /\ pc = "enemies" /\ last.key = "e"
    /\ game.game_time = 168
    /\ ThePlayer(game).missions_completed = <<"Sweet's Mission">>
    /\ ThePlayer(game).current_mission = None
    /\ ThePlayer(game).money = Player_init(0, 0).money + Missions["Sweet's Mission"].reward_money
    /\ \E i \in 1..Len(ThePlayer(game).inventory) :
          game.heap[ThePlayer(game).inventory[i]].name = "Shotgun"
    /\ ~game.heap["ryder"].mission_completed

\* C34: the player's completed missions are a prefix of Sweet's, Ryder's, Big
\* Smoke's, in that order, and an NPC's mission_completed flag is set exactly
\* when the name of the mission it offers is in that list
C34_CompletedIsPrefixAndFlagged ==
    LET done == ThePlayer(game).missions_completed IN
    /\ Len(done) <= Len(MissionNames)
    /\ done = SubSeq(MissionNames, 1, Len(done))
    /\ \A i \in 1..Len(game.npcs) :
          LET n == game.heap[game.npcs[i][2]] IN
          n.mission_offered # None
              => (n.mission_completed <=> n.mission_offered \in Range(done))

\* Sweet's and Ryder's missions are completed and flagged, Big Smoke's is not
C34_TwoOfThreeCompleted ==
    /\ ThePlayer(game).missions_completed = SubSeq(MissionNames, 1, 2)
    /\ game.heap["sweet"].mission_completed
    /\ game.heap["ryder"].mission_completed
    /\ ~game.heap["big_smoke"].mission_completed

\* C35: whenever the player is in a vehicle, from the moment of entering on,
\* the player stands on the vehicle's cell
C35_DriverIsOnVehicleCell ==
    LET p == ThePlayer(game) IN
    p.current_vehicle # None
        => /\ p.x = game.heap[p.current_vehicle].x
           /\ p.y = game.heap[p.current_vehicle].y

\* C36: a line typed at a shop's prompt buys the entry it numbers exactly when
\* the player's money covers the price: the price is deducted and the item
\* appended to the inventory, nothing else changes; with too little money, a
\* number out of range or a line that is no number nothing changes at all; and
\* the player's money is never negative
C36_PurchaseNeedsTheMoney ==
    [][/\ game'.heap[game'.player].money >= 0
       /\ /\ pc = "input" /\ last'.key = "e"
          /\ FirstScanned(game) # None
          /\ IsShop(game.heap[FirstScanned(game)])
          /\ Len(last'.t.lines) = 1
          => LET p == ThePlayer(game)
                 inv == game.heap[FirstScanned(game)].inventory
                 c == last'.t.lines[1]
             IN IF c.numeric /\ 1 <= c.value /\ c.value <= Len(inv)
                THEN IF p.money >= inv[c.value][2]
                     THEN game' = [game EXCEPT
                             !.heap[game.player].money = p.money - inv[c.value][2],
                             !.heap[game.player].inventory =
                                 Append(p.inventory, inv[c.value][1])]
                     ELSE game' = game
                ELSE game' = game]_vars

\* the Knife was bought with the last 50 dollars, after an Uzi was refused for
\* want of money
C36_SpentTheLastDollar ==
    /\ pc = "enemies" /\ last.key = "e"
    /\ last.t.lines = <<Line(TRUE, 1)>>
    /\ ThePlayer(game).money = 0
    /\ Len(ThePlayer(game).inventory) = 4
    /\ game.heap[ThePlayer(game).inventory[4]].name = "Knife"
    /\ game.game_time = 39

\* C37: whenever the loop has rendered the map and prompts for a command,
\* every cell of the grid within distance VISION_RADIUS of the current player
\* is discovered in the current player's grid
C37_SurroundingsAreDiscovered ==
    pc = "input" =>
        \A x \in 0..(MAP_WIDTH - 1), y \in 0..(MAP_HEIGHT - 1) :
            (x - ThePlayer(game).x) * (x - ThePlayer(game).x)
              + (y - ThePlayer(game).y) * (y - ThePlayer(game).y)
                <= VISION_RADIUS * VISION_RADIUS
            => <<x, y>> \in ThePlayer(game).discovered_map

\* ============================================================ edition 1.3
\* src/GTAESEdemake.py.  Its world is a record shaped like the one of the 2.0
\* edition (running, player, objects, the dictionaries, heap), so that the
\* operators of the code the two editions share serve both: NPC.talk,
\* BigSmoke.talk, Mission.is_completed and complete, the prompt loop of
\* Shop.enter, Character.add_item and take_damage, the collision loop of
\* Player.move, GameMap.get_object_at and remove_object.
GTAESE_MAP_WIDTH == 50
GTAESE_MAP_HEIGHT == 20
GTAESE_VISION_RADIUS == 6
\* Character.attack without a weapon
GTAESE_FistDamage == 1
\* the damage load_game gives every enemy it rebuilds
GTAESE_LoadedEnemyDamage == 10

\* the objects _initialize_game_objects adds to the map, in its order
GTAESE_InitialObjects ==
    <<"sweet", "ryder", "big_smoke", "pistol", "shotgun", "health_pack_1",
      "cash_bundle", "ammu_nation", "gangster1", "gangster2">>

\* the Item subclasses: damage, heal_amount and amount are the field "power"
GTAESE_Item(cls, x, y, name, power) ==
    [cls |-> cls, name |-> name, x |-> x, y |-> y, power |-> power]

\* Enemy.__init__
GTAESE_Enemy(x, y, name, health, damage) ==
    [cls |-> "Enemy", name |-> name, x |-> x, y |-> y,
     health |-> health, max_health |-> health, inventory |-> <<>>, money |-> 0,
     current_weapon |-> None, damage |-> damage]

\* Game._initialize_game_objects and _initialize_missions: the objects made
GTAESE_InitialHeap ==
    LET npc(x, y, name, mission) ==
            [cls |-> "NPC", name |-> name, x |-> x, y |-> y,
             health |-> 50, max_health |-> 50, inventory |-> <<>>, money |-> 0,
             current_weapon |-> None, mission_offered |-> mission,
             mission_completed |-> FALSE]
    IN ("sweet" :> npc(5, 5, "Sweet", "Sweet's Mission"))
    @@ ("ryder" :> npc(10, 10, "Ryder", "Ryder's Mission"))
    @@ ("big_smoke" :>
            [cls |-> "BigSmoke", name |-> "Big Smoke", x |-> 20, y |-> 15,
             health |-> 50, max_health |-> 50, inventory |-> <<>>, money |-> 0,
             current_weapon |-> None, mission_offered |-> "Big Smoke's Mission",
             mission_completed |-> FALSE, char2_x |-> 20 + 1, char2_y |-> 15])
    @@ ("pistol" :> GTAESE_Item("Weapon", 2, 2, "Pistol", 15))
    @@ ("shotgun" :> GTAESE_Item("Weapon", GTAESE_MAP_WIDTH - 5, GTAESE_MAP_HEIGHT - 5,
                                 "Shotgun", 30))
    @@ ("health_pack_1" :> GTAESE_Item("HealthPack", 7, 7, "Small Health Pack", 25))
    @@ ("cash_bundle" :> GTAESE_Item("MoneyBundle", GTAESE_MAP_WIDTH \div 4,
                                     GTAESE_MAP_HEIGHT \div 4, "Cash Bundle", 200))
    @@ ("knife" :> GTAESE_Item("Weapon", 0, 0, "Knife", 10))
    @@ ("uzi" :> GTAESE_Item("Weapon", 0, 0, "Uzi", 20))
    @@ ("large_health_pack" :> GTAESE_Item("HealthPack", 0, 0, "Large Health Pack", 50))
    @@ ("ammu_nation" :>
            [cls |-> "Shop", name |-> "Ammu-Nation", x |-> GTAESE_MAP_WIDTH - 10, y |-> 5,
             inventory |-> << <<"knife", 50>>, <<"uzi", 150>>,
                              <<"large_health_pack", 75>> >>])
    @@ ("gangster1" :> GTAESE_Enemy(15, 10, "Gangster", 40, 10))
    @@ ("gangster2" :> GTAESE_Enemy(25, 8, "Gangster", 40, 10))

\* Game.__init__; next_id counts the worlds load_game has rebuilt
GTAESE_Game_init ==
    [running |-> TRUE,
     player |-> "CJ",
     next_id |-> 0,
     objects |-> <<"CJ">> \o GTAESE_InitialObjects,
     npcs |-> << <<"sweet", "sweet">>, <<"ryder", "ryder">>,
                 <<"big_smoke", "big_smoke">> >>,
     items |-> << <<"pistol", "pistol">>, <<"shotgun", "shotgun">>,
                  <<"health_pack_1", "health_pack_1">>,
                  <<"cash_bundle", "cash_bundle">> >>,
     shops |-> << <<"ammu_nation", "ammu_nation">> >>,
     enemies |-> << <<"gangster1", "gangster1">>, <<"gangster2", "gangster2">> >>,
     heap |->
        ("CJ" :> [cls |-> "Player", name |-> "CJ",
                  x |-> GTAESE_MAP_WIDTH \div 2, y |-> GTAESE_MAP_HEIGHT \div 2,
                  health |-> 100, max_health |-> 100, inventory |-> <<>>,
                  money |-> 500, current_weapon |-> None, discovered_map |-> {},
                  missions_completed |-> <<>>, current_mission |-> None])
        @@ GTAESE_InitialHeap]

GTAESE_InBounds(x, y) ==
    0 <= x /\ x < GTAESE_MAP_WIDTH /\ 0 <= y /\ y < GTAESE_MAP_HEIGHT

\* Player.discover_area
GTAESE_Player_discover_area(g) ==
    LET p == ThePlayer(g)
        r == GTAESE_VISION_RADIUS
    IN [g EXCEPT !.heap[g.player].discovered_map = @ \cup
            {c \in ((p.x - r)..(p.x + r)) \X ((p.y - r)..(p.y + r)) :
                /\ GTAESE_InBounds(c[1], c[2])
                /\ (c[1] - p.x) * (c[1] - p.x) + (c[2] - p.y) * (c[2] - p.y) <= r * r}]

\* Player.move: the state it leaves; it returns True exactly when it moves
GTAESE_Player_move(g, dx, dy) ==
    LET new_x == ThePlayer(g).x + dx
        new_y == ThePlayer(g).y + dy
    IN IF ~GTAESE_InBounds(new_x, new_y) THEN g
       ELSE IF MoveBlocked(g, {g.player}, new_x, new_y) THEN g
       ELSE [g EXCEPT !.heap[g.player].x = new_x, !.heap[g.player].y = new_y]

\* Character.attack
GTAESE_Character_attack(g, attacker, target) ==
    Character_take_damage(g, target,
        IF g.heap[attacker].current_weapon # None
        THEN g.heap[g.heap[attacker].current_weapon].power
        ELSE GTAESE_FistDamage)

\* Enemy.take_turn with Enemy.move_randomly; order: what random.shuffle left
GTAESE_Enemy_take_turn(g, e, order) ==
    LET en == g.heap[e]
        p == ThePlayer(g)
        free(i) ==
            /\ GTAESE_InBounds(en.x + order[i][1], en.y + order[i][2])
            /\ ~\E j \in 1..Len(g.objects) :
                  /\ g.objects[j] # e
                  /\ g.heap[g.objects[j]].x = en.x + order[i][1]
                  /\ g.heap[g.objects[j]].y = en.y + order[i][2]
        ok == {i \in 1..Len(order) : free(i)}
        first == CHOOSE i \in ok : \A j \in ok : i <= j
    IN IF Abs(en.x - p.x) <= 1 /\ Abs(en.y - p.y) <= 1
       THEN GTAESE_Character_attack(g, e, g.player)
       ELSE IF ok = {} THEN g
       ELSE [g EXCEPT !.heap[e].x = en.x + order[first][1],
                      !.heap[e].y = en.y + order[first][2]]

RECURSIVE GTAESE_EnemyLoop(_, _, _)
\* main_loop: the turns of the enemies es, the living enemies of the map
GTAESE_EnemyLoop(g, es, order) ==
    IF es = <<>> THEN g
    ELSE GTAESE_EnemyLoop(GTAESE_Enemy_take_turn(g, Head(es), order), Tail(es), order)

\* handle_input: the interaction with the object get_object_at finds on the
\* player's cell
GTAESE_Interact(g, t) ==
    LET obj_at_player_pos == GameMap_get_object_at(g, ThePlayer(g).x, ThePlayer(g).y)
    IN IF obj_at_player_pos = None \/ obj_at_player_pos = g.player THEN g
       ELSE IF IsNPC(g.heap[obj_at_player_pos])
       THEN Talk(g, obj_at_player_pos, g.player, t.yes)
       ELSE IF IsItem(g.heap[obj_at_player_pos])
       THEN GameMap_remove_object(Character_add_item(g, g.player, obj_at_player_pos),
                                  obj_at_player_pos)
       ELSE IF IsShop(g.heap[obj_at_player_pos])
       THEN Shop_enter(g, obj_at_player_pos, g.player, t.lines)
       ELSE IF IsEnemy(g.heap[obj_at_player_pos])
       THEN GTAESE_Character_attack(g, g.player, obj_at_player_pos)
       ELSE g

\* Game.save_game: the document written, as json.load gives it back
GTAESE_SaveDocument(g) ==
    LET p == ThePlayer(g)
        on_map(is(_)) == SelectSeq(g.objects, LAMBDA o : is(g.heap[o]))
        items == on_map(IsItem)
        foes == on_map(IsEnemy)
    IN [player |->
           [x |-> p.x, y |-> p.y, health |-> p.health, money |-> p.money,
            inventory |-> [i \in 1..Len(p.inventory) |->
                              <<g.heap[p.inventory[i]].name, g.heap[p.inventory[i]].cls>>],
            current_weapon |-> IF p.current_weapon # None
                               THEN g.heap[p.current_weapon].name ELSE None,
            discovered_map |-> p.discovered_map,
            missions_completed |-> p.missions_completed,
            current_mission |-> p.current_mission],
        npcs |-> [i \in 1..Len(g.npcs) |->
                     <<g.npcs[i][1], g.heap[g.npcs[i][2]].mission_completed>>],
        items_on_map |-> [i \in 1..Len(items) |->
                             [name |-> g.heap[items[i]].name, x |-> g.heap[items[i]].x,
                              y |-> g.heap[items[i]].y, type |-> g.heap[items[i]].cls]],
        enemies |-> [i \in 1..Len(foes) |->
                        [name |-> g.heap[foes[i]].name, x |-> g.heap[foes[i]].x,
                         y |-> g.heap[foes[i]].y, health |-> g.heap[foes[i]].health]]]

\* the items load_game knows by name: class and power
GTAESE_KnownItems ==
    ("Pistol" :> <<"Weapon", 15>>) @@ ("Shotgun" :> <<"Weapon", 30>>)
    @@ ("Knife" :> <<"Weapon", 10>>) @@ ("Uzi" :> <<"Weapon", 20>>)
    @@ ("Small Health Pack" :> <<"HealthPack", 25>>)
    @@ ("Large Health Pack" :> <<"HealthPack", 50>>)
    @@ ("Cash Bundle" :> <<"MoneyBundle", 200>>)

\* Game.load_game: the world it leaves.  d is the document read; the objects
\* it builds get identifiers stamped with the number of the rebuilt world
GTAESE_LoadDocument(g, d) ==
    LET stamp(kind, i) == kind \o ToString(g.next_id) \o "_" \o ToString(i)
        \* game_map.objects = [], _initialize_game_objects, _initialize_missions
        g1 == [g EXCEPT !.objects = GTAESE_InitialObjects,
                        !.npcs = GTAESE_Game_init.npcs,
                        !.items = GTAESE_Game_init.items,
                        !.shops = GTAESE_Game_init.shops,
                        !.enemies = GTAESE_Game_init.enemies,
                        !.heap = GTAESE_InitialHeap @@ @,
                        !.next_id = @ + 1]
        \* the player data and the inventory
        known == {i \in 1..Len(d.player.inventory) :
                     d.player.inventory[i][1] \in DOMAIN GTAESE_KnownItems}
        carried == SelectSeq([i \in 1..Len(d.player.inventory) |-> i],
                             LAMBDA i : i \in known)
        made(i) == GTAESE_Item(GTAESE_KnownItems[d.player.inventory[i][1]][1], 0, 0,
                               d.player.inventory[i][1],
                               GTAESE_KnownItems[d.player.inventory[i][1]][2])
        inventory == [n \in 1..Len(carried) |-> stamp("carried", carried[n])]
        armed == {n \in 1..Len(carried) :
                     /\ made(carried[n]).cls = "Weapon"
                     /\ made(carried[n]).name = d.player.current_weapon}
        offered == {n \in 1..Len(g1.npcs) :
                       g1.heap[g1.npcs[n][2]].mission_offered = d.player.current_mission}
        flag(id, old) ==
            LET named == {n \in 1..Len(d.npcs) : d.npcs[n][1] = id}
            IN IF named = {} THEN old
               ELSE d.npcs[CHOOSE n \in named : \A m \in named : n >= m][2]
        g2 == [g1 EXCEPT
                 !.heap = [id \in DOMAIN @ \cup Range(inventory) |->
                    IF id \in Range(inventory)
                    THEN made(carried[CHOOSE n \in 1..Len(carried) : inventory[n] = id])
                    ELSE IF id = g.player
                    THEN [@[id] EXCEPT
                            !.x = d.player.x, !.y = d.player.y,
                            !.health = d.player.health, !.money = d.player.money,
                            !.discovered_map = d.player.discovered_map,
                            !.missions_completed = d.player.missions_completed,
                            !.inventory = inventory,
                            !.current_weapon =
                                IF d.player.current_weapon # None /\ armed # {}
                                THEN inventory[CHOOSE n \in armed : \A m \in armed : n <= m]
                                ELSE @,
                            !.current_mission =
                                IF d.player.current_mission # None /\ offered # {}
                                THEN d.player.current_mission ELSE @]
                    ELSE IF id \in Range(DictValues(g1.npcs))
                    THEN [@[id] EXCEPT !.mission_completed =
                            flag(CHOOSE k \in DictKeys(g1.npcs) : id \in DictAt(g1.npcs, k), @)]
                    ELSE @[id]]]
        \* the items of the map: item_data["amount"] raises KeyError at the
        \* first MoneyBundle, which save_game writes without an amount
        bundles == {i \in 1..Len(d.items_on_map) : d.items_on_map[i].type = "MoneyBundle"}
        raised == bundles # {}
        loaded == IF raised THEN (CHOOSE i \in bundles : \A j \in bundles : i <= j) - 1
                  ELSE Len(d.items_on_map)
        built == SelectSeq([i \in 1..loaded |-> i],
                           LAMBDA i : d.items_on_map[i].type \in {"Weapon", "HealthPack"})
        item(i) ==
            LET it == d.items_on_map[i] IN
            GTAESE_Item(it.type, it.x, it.y, it.name,
                IF it.name \in DOMAIN GTAESE_KnownItems
                   /\ GTAESE_KnownItems[it.name][1] = it.type
                   /\ it.name \notin {"Knife", "Uzi"}
                THEN GTAESE_KnownItems[it.name][2] ELSE 0)
        items == [n \in 1..Len(built) |-> stamp("item", built[n])]
        g3 == [g2 EXCEPT
                 !.objects = SelectSeq(@, LAMBDA o : ~IsItem(g2.heap[o])) \o items,
                 !.heap = [id \in DOMAIN @ \cup Range(items) |->
                             IF id \in Range(items)
                             THEN item(built[CHOOSE n \in 1..Len(built) : items[n] = id])
                             ELSE @[id]]]
        \* the enemies of the map, then the player, the NPCs and the shops again
        foe(i) == GTAESE_Enemy(d.enemies[i].x, d.enemies[i].y, d.enemies[i].name,
                               d.enemies[i].health, GTAESE_LoadedEnemyDamage)
        foes == [i \in 1..Len(d.enemies) |-> stamp("enemy", i)]
        g4 == [g3 EXCEPT
                 !.objects = SelectSeq(@, LAMBDA o : ~IsEnemy(g3.heap[o])) \o foes
                             \o <<g.player>> \o DictValues(g1.npcs) \o DictValues(g1.shops),
                 !.heap = [id \in DOMAIN @ \cup Range(foes) |->
                             IF id \in Range(foes)
                             THEN foe(CHOOSE i \in 1..Len(foes) : foes[i] = id)
                             ELSE @[id]]]
    IN IF raised THEN g3 ELSE g4

\* Game.load_game
GTAESE_load_game(g, f) ==
    IF f.kind = "json" THEN GTAESE_LoadDocument(g, f.data) ELSE g

\* Game.handle_input: the game and the save file it leaves
GTAESE_handle_input(g, f, key, t) ==
    LET g1 == GTAESE_Player_move(g, KeyDx(key), KeyDy(key))
        moved == g1 # g
    IN CASE key = "q" -> [game |-> [g EXCEPT !.running = FALSE], file |-> f]
         [] key \in MoveKeys ->
                [game |-> IF moved
                          THEN GTAESE_Interact(GTAESE_Player_discover_area(g1), t)
                          ELSE g,
                 file |-> f]
         \* "i" stands for i, u, t and b, which differ in what they print
         [] key = "i" -> [game |-> GTAESE_Interact(g, t), file |-> f]
         [] key = "l" -> [game |-> GTAESE_load_game(GTAESE_Interact(g, t), f), file |-> f]
         [] key = "v" -> [game |-> GTAESE_Interact(g, t),
                          file |-> FileOf(GTAESE_SaveDocument(GTAESE_Interact(g, t)))]
         \* any other line, "u <item>" and "a <enemy>" among them
         [] OTHER -> [game |-> g, file |-> f]

\* ------------------------------------------------------------ the 1.3 state machine
\* one iteration of main_loop played from a script: the order number k of the
\* shuffles of its enemy turns, the line typed at the command prompt and what
\* is typed at the prompts the command opens
GTAESE_Step(key, k) == Step(key, NoTyping, k, <<>>)

\* the runs of the 1.3 edition: the save file found and the script played
GTAESE_Runs ==
    <<[file |-> FileMissing, script |-> <<>>],
      [file |-> FileCorrupt, script |-> <<>>],
      \* CJ saves and loads, twice, and walks on
      [file |-> FileMissing,
       script |-> <<GTAESE_Step("v", 0), GTAESE_Step("l", 0), GTAESE_Step("v", 0),
                    GTAESE_Step("l", 0), GTAESE_Step("d", 0), GTAESE_Step("i", 0)>>],
      \* CJ walks to the cell below the Pistol and on against it
      [file |-> FileMissing,
       script |-> <<GTAESE_Step("s", 0)>> \o Times(GTAESE_Step("a", 0), 23)
                  \o Times(GTAESE_Step("w", 0), 8)
                  \o <<GTAESE_Step("w", 0), GTAESE_Step("i", 0)>>],
      \* ... and from there to the cell left of Sweet and on against him
      [file |-> FileMissing,
       script |-> <<GTAESE_Step("s", 0)>> \o Times(GTAESE_Step("a", 0), 23)
                  \o Times(GTAESE_Step("w", 0), 6) \o Times(GTAESE_Step("d", 0), 2)
                  \o <<GTAESE_Step("d", 0), GTAESE_Step("i", 1)>>]>>

GTAESE_NextStep == GTAESE_Runs[script.run].script[script.at]

GTAESE_Keys == MoveKeys \cup {"q", "i", "l", "v", "z"}

\* Game() has been constructed; main_loop is about to be called
GTAESE_Init ==
    /\ game = GTAESE_Game_init
    /\ \E r \in 1..Len(GTAESE_Runs) :
          /\ file = GTAESE_Runs[r].file
          /\ script = IF GTAESE_Runs[r].script = <<>> THEN NoScript
                      ELSE [run |-> r, at |-> 1]
    /\ pc = "start"
    /\ active_enemies = <<>>
    /\ ticks = 0
    /\ last = [key |-> "none", k |-> 0, t |-> NoTyping]

\* main_loop up to the while loop
GTAESE_EnterLoop ==
    /\ pc = "start"
    /\ game' = GTAESE_Player_discover_area(game)
    /\ pc' = "top"
    /\ UNCHANGED <<file, active_enemies, script, ticks, last>>

\* while self.running: render, the enemy turns, game_over and game_win
GTAESE_EnemyTurns ==
    /\ pc = "top"
    /\ game.running
    /\ Scripted \/ ticks < MaxTicks
    /\ \E k \in IF Scripted THEN {GTAESE_NextStep.k} ELSE 0..(NumShuffles - 1) :
          /\ last' = [last EXCEPT !.k = k]
          /\ LET living == SelectSeq(game.objects,
                               LAMBDA o : IsEnemy(game.heap[o]) /\ game.heap[o].health > 0)
                 g1 == GTAESE_EnemyLoop(game, living, ShuffleOrder(k))
                 over == ThePlayer(g1).health <= 0
                 win == \A m \in Range(MissionNames) :
                            m \in Range(ThePlayer(g1).missions_completed)
             IN /\ game' = IF over \/ win THEN [g1 EXCEPT !.running = FALSE] ELSE g1
                /\ pc' = IF over \/ win THEN "exit" ELSE "input"
    /\ UNCHANGED <<file, active_enemies, script, ticks>>

\* input() and handle_input
GTAESE_Command ==
    /\ pc = "input"
    /\ \E key \in IF Scripted THEN {GTAESE_NextStep.key} ELSE GTAESE_Keys :
       \E t \in IF Scripted THEN {GTAESE_NextStep.t}
                ELSE {Typed(yes, lines, ZeroLine) :
                         yes \in BOOLEAN, lines \in ShopLines(MaxCatalog)} :
          /\ ticks < MaxTicks \/ Scripted
          /\ LET r == GTAESE_handle_input(game, file, key, t)
             IN /\ game' = r.game
                /\ file' = r.file
                /\ pc' = IF r.game.running THEN "top" ELSE "exit"
          /\ last' = [last EXCEPT !.key = key, !.t = t]
    /\ ticks' = IF Scripted THEN ticks ELSE ticks + 1
    /\ script' = IF Scripted /\ script.at < Len(GTAESE_Runs[script.run].script)
                 THEN [script EXCEPT !.at = @ + 1]
                 ELSE NoScript
    /\ UNCHANGED active_enemies

GTAESE_Next ==
    \/ GTAESE_EnterLoop
    \/ GTAESE_EnemyTurns
    \/ GTAESE_Command

GTAESE_Spec == GTAESE_Init /\ [][GTAESE_Next]_vars

\* ------------------------------------------------------------ properties of the 1.3 edition
\* the number of places the object has in the map's object list
GTAESE_Places(g, id) == Cardinality({i \in 1..Len(g.objects) : g.objects[i] = id})

\* C38: when load_game returns, with success or with "Starting new game", the
\* map's object list holds the player exactly once and every NPC and every
\* shop of the dictionaries exactly once
C38_LoadKeepsOneOfEach ==
    [][pc = "input" /\ last'.key = "l"
       => /\ GTAESE_Places(game', game'.player) = 1
          /\ \A id \in Range(DictValues(game'.npcs)) \cup Range(DictValues(game'.shops)) :
                GTAESE_Places(game', id) = 1]_vars

\* the map object a move by key would step on: an item or an NPC, or None
GTAESE_Met(g, key) ==
    LET obj == GameMap_get_object_at(g, ThePlayer(g).x + KeyDx(key),
                                     ThePlayer(g).y + KeyDy(key))
    IN IF obj # None /\ (IsItem(g.heap[obj]) \/ IsNPC(g.heap[obj])) THEN obj ELSE None

\* C39: the commands bring the player to interact with the object of the
\* player's own cell: a move commanded onto the cell of an item or of an NPC
\* puts the player on that cell, where the command's own-cell lookup finds the
\* object, and an item found there is picked up
C39_OwnCellInteractionIsReached ==
    [][/\ pc = "input" /\ last'.key \in MoveKeys
       /\ GTAESE_Met(game, last'.key) # None
       => LET obj == GTAESE_Met(game, last'.key)
              q == game'.heap[game'.player]
          IN /\ Covers(game.heap[obj], q.x, q.y)
             /\ IsItem(game.heap[obj]) => obj \in Range(q.inventory)]_vars

\* what holds instead in every state the 1.3 model reaches: nothing has been
\* picked up or bought, no mission has been accepted or completed, and the
\* player's cell holds no item and no NPC
GTAESE_NothingIsEverInteractedWith ==
    /\ ThePlayer(game).inventory = <<>>
    /\ ThePlayer(game).missions_completed = <<>>
    /\ ThePlayer(game).current_mission = None
    /\ ThePlayer(game).money = GTAESE_Game_init.heap["CJ"].money
    /\ \A i \in 1..Len(game.objects) :
          Covers(game.heap[game.objects[i]], ThePlayer(game).x, ThePlayer(game).y)
              => ~IsItem(game.heap[game.objects[i]]) /\ ~IsNPC(game.heap[game.objects[i]])
====
